---- MODULE Spec2Model ----
(***************************************************************************)
(* MailMind content script (content.js, reproduced in README.md): the      *)
(* summary cache, the in-flight map and the serialized summary queue that  *)
(* wrap generateEmailSummary, with the Gemini client behind them.          *)
(*                                                                         *)
(* JavaScript runs each continuation to completion, so one action is one   *)
(* synchronous stretch of code between two awaits.  Every summarize        *)
(* invocation that has not returned is a record of `inv` (its position in  *)
(* the async function); every queue task that is unsettled or still        *)
(* awaited is a record of `tasks` (its promise and the position of its run *)
(* function).  An invocation that returned and a promise nobody holds any  *)
(* more leave no state behind, as in the program; what an invocation       *)
(* returned in the step just taken is kept in the history variable `ev`.   *)
(* Behaviours are unbounded: only the number of invocations alive at one   *)
(* time is.                                                                *)
(***************************************************************************)
EXTENDS Integers, Sequences, FiniteSets, Bags, TLC

VARIABLES
    summaryCache,               \* this.summaryCache: Map id -> summary
    storage,                    \* chrome.storage.local[summaryCacheStorageKey]
    inFlightSummaries,          \* this.inFlightSummaries: Map id -> task promise
    summaryQueue,               \* this.summaryQueue: tasks, head first
    isProcessingSummaryQueue,   \* this.isProcessingSummaryQueue
    tasks,                      \* live tasks (promise and runFn), by object identity
    inv,                        \* live summarize invocations (a bag of frames)
    enqueued,                   \* history: unsettled tasks in the order of enqueueing
    ev,                         \* history: what the last step returned to a caller
    keyLog,                     \* history: computeSummaryId calls made on their own
    currentSidebar,             \* this.currentSidebar: 0 (null) or a sidebar element
    multiRun,                   \* generateMultiEmailSummaries: its emailsData, summaries and position
    watch,                      \* the page and checkAndShowSidebar: open mail, currentEmailId, timer
    popup,                      \* popup and background: apiKey, stored geminiApiKey, saveApiKey calls
    peer,                       \* a second content-script instance: its setCachedSummary
    multiSelect,                \* multi-select: the selected rows, the multi-email sidebar, handleMultiSelect runs
    loads                       \* popup: isLoading, loadEmailCount calls and the timers that start them

vars == <<summaryCache, storage, inFlightSummaries, summaryQueue,
          isProcessingSummaryQueue, tasks, inv, enqueued, ev, keyLog,
          currentSidebar, multiRun, watch, popup, peer, multiSelect, loads>>

\* What the summary path itself never assigns, and the same without one.
outer == <<keyLog, currentSidebar, multiRun, watch, popup, peer, multiSelect, loads>>
exceptKeyLog == <<currentSidebar, multiRun, watch, popup, peer, multiSelect, loads>>
exceptCurrentSidebar == <<keyLog, multiRun, watch, popup, peer, multiSelect, loads>>
exceptMultiRun == <<keyLog, currentSidebar, watch, popup, peer, multiSelect, loads>>
exceptWatch == <<keyLog, currentSidebar, multiRun, popup, peer, multiSelect, loads>>
exceptPopup == <<keyLog, currentSidebar, multiRun, watch, peer, multiSelect, loads>>
exceptWatchSidebar == <<keyLog, multiRun, popup, peer, multiSelect, loads>>
exceptPeer == <<keyLog, currentSidebar, multiRun, watch, popup, multiSelect, loads>>
exceptMulti == <<keyLog, currentSidebar, multiRun, watch, popup, peer, loads>>
exceptWatchSidebarMulti == <<keyLog, multiRun, popup, peer, loads>>
exceptLoads == <<keyLog, currentSidebar, multiRun, watch, popup, peer, multiSelect>>
exceptPopupLoads == <<keyLog, currentSidebar, multiRun, watch, peer, multiSelect>>

(***************************************************************************)
(* Bounds of the model.                                                    *)
(***************************************************************************)
MaxActive == 3      \* invocations that have not returned, at any time (Spec)
MaxMulti == 2       \* the same, under SpecMulti
MaxKeyCalls == 2    \* computeSummaryId calls on record at a time (SpecKey)

(***************************************************************************)
(* Program constants.                                                      *)
(***************************************************************************)
PrefixLen == 50     \* (body || '').substring(0, 50)

(***************************************************************************)
(* Maps (JS Map / plain object with string keys).                          *)
(***************************************************************************)
EmptyMap == [x \in {} |-> ""]
MapSet(m, k, v) == [x \in (DOMAIN m) \cup {k} |-> IF x = k THEN v ELSE m[x]]
MapDelete(m, k) == [x \in (DOMAIN m) \ {k} |-> m[x]]
MapHas(m, k) == k \in DOMAIN m
Restrict(m, S) == [x \in (DOMAIN m) \cap S |-> m[x]]

Null == "<null>"
Thrown == "<thrown>"

Min(a, b) == IF a < b THEN a ELSE b

(***************************************************************************)
(* Backend client.                                                         *)
(***************************************************************************)
Ok(v) == [ok |-> TRUE, val |-> v]
Err(e) == [ok |-> FALSE, val |-> e]
Pending == [ok |-> FALSE, val |-> "<pending>"]     \* no outcome (yet)

RECURSIVE Trim(_)
Trim(s) ==
    IF s = "" THEN ""
    ELSE IF SubSeq(s, 1, 1) = " " THEN Trim(SubSeq(s, 2, Len(s)))
    ELSE IF SubSeq(s, Len(s), Len(s)) = " " THEN Trim(SubSeq(s, 1, Len(s) - 1))
    ELSE s

\* What the HTTP exchange can come to: fetch rejects (~net), a non-2xx
\* status (~ok), a 2xx body without candidates[0].content.parts[0].text, or
\* a body with a text.  Answers: one failure and one summary.
NoText == "<undefined>"
Answers ==
    { [net |-> TRUE, ok |-> FALSE, text |-> NoText],
      [net |-> TRUE, ok |-> TRUE,  text |-> "v1 "] }
Responses ==
    Answers \cup { [net |-> FALSE, ok |-> FALSE, text |-> NoText],
                   [net |-> TRUE,  ok |-> TRUE,  text |-> NoText],
                   [net |-> TRUE,  ok |-> TRUE,  text |-> " "] }

\* callGeminiAPI returning the text as the backend sent it
callGeminiAPIUntrimmed(resp) ==
    IF ~resp.net THEN Err("Failed to fetch")
    ELSE IF ~resp.ok THEN Err("API error")
    ELSE IF resp.text = NoText \/ resp.text = "" THEN Err("No content generated")
    ELSE Ok(resp.text)

callGeminiAPI(resp) ==
    IF ~resp.net THEN Err("Failed to fetch")
    ELSE IF ~resp.ok THEN Err("API error")
    ELSE IF resp.text = NoText \/ resp.text = "" THEN Err("No content generated")
    ELSE Ok(Trim(resp.text))

(***************************************************************************)
(* Content hasher.                                                         *)
(***************************************************************************)
\* crypto.subtle.digest('SHA-256', ...) rendered in hex: modelled as a
\* collision-free tagging of its input.
computeSHA256Hex(input) == "sha256(" \o input \o ")"

Substring(s, n) == SubSeq(s, 1, Min(Len(s), n))

\* computeSummaryId putting `mid:` in front of an explicit id
computeSummaryIdPrefixed(explicitId, subject, body, time, dom, digestOk) ==
    IF explicitId # "" THEN "mid:" \o explicitId
    ELSE IF dom.mid # "" THEN "mid:" \o dom.mid
    ELSE Thrown

\* dom = [mid, time]: what getOpenMessageIdFromDOM and
\* extractOpenEmailTimeFromDOM read from the page when the call is made.
\* digestOk: whether crypto.subtle.digest resolves.
computeSummaryId(explicitId, subject, body, time, dom, digestOk) ==
    IF explicitId # "" THEN explicitId
    ELSE IF dom.mid # "" THEN "mid:" \o dom.mid
    ELSE IF ~digestOk THEN Thrown
    ELSE LET first50 == Substring(body, PrefixLen)
             t == IF time # "" THEN time ELSE dom.time
         IN  "hash:" \o computeSHA256Hex(subject \o "|" \o t \o "|" \o first50)

\* handleMultiSelect gives every selected row its id before summarizing.
computeRowEmailId(rowMid, email, digestOk) ==
    IF rowMid # "" THEN "mid:" \o rowMid
    ELSE LET first50 == Substring(email.body, PrefixLen)
             composite == email.subject \o "|" \o email.time \o "|" \o first50
         IN  IF digestOk THEN "hash:" \o computeSHA256Hex(composite)
             ELSE composite

\* The pages and mails of the model.
Emails == { [subject |-> "S1", body |-> "B1", time |-> "t1"] }
MessageIds == {"", "m1", "m2"}
Doms == [mid : MessageIds, time : {"t1"}]

(***************************************************************************)
(* Persistent cache.                                                       *)
(***************************************************************************)
getCachedSummary(id) ==
    IF MapHas(summaryCache, id) /\ summaryCache[id] # ""
    THEN summaryCache[id] ELSE Null

\* loadSummaryCache: the stored object, or an empty Map when the read fails.
loadSummaryCache(stored, readOk) == IF readOk THEN stored ELSE EmptyMap

StoredAtStartup == { EmptyMap, MapSet(EmptyMap, "mid:m1", "v1") }

(***************************************************************************)
(* State after the constructor and init().                                 *)
(***************************************************************************)
\* generateMultiEmailSummaries is not running.
NoRun == [emailsData |-> <<>>, summaries |-> <<>>, i |-> 0, st |-> "idle"]

\* No mail is open, nothing was detected, an API key was loaded by init().
NoWatch ==
    [emailView |-> "", ready |-> FALSE, currentEmailId |-> Null,
     debounceTimer |-> FALSE, apiKey |-> TRUE, isMultiSelectMode |-> FALSE,
     sidebarFor |-> Null]

\* The popup before loadApiKey and chrome.storage.local without a key.
\* saves: the saveApiKey calls suspended at an await; tested: the keys whose
\* connection test came back ok.
NoPopup == [apiKey |-> Null, geminiApiKey |-> Null, saves |-> {}, tested |-> {}]

\* The second instance is not in setCachedSummary.
NoPeer == [st |-> "idle", id |-> "", summary |-> "", raw |-> EmptyMap]

\* The multi-email sidebar shows nothing.
NoContent == [kind |-> "none", run |-> 0, of |-> {}]

\* No row is selected and there is no multi-email sidebar.  selected: the
\* rows Gmail shows as selected; timer: the 200 ms timer of the multi-select
\* observer is running; multiSelectSidebar: 0 (null) or the number of the
\* handleMultiSelect run that created the element; shows: its content, the
\* run that wrote it and the mails it is about; runs: the handleMultiSelect
\* invocations suspended at an await; started: how many were started;
\* changedHidden: the selection has changed since the sidebar was hidden.
NoMulti ==
    [selected |-> {}, timer |-> FALSE, selectedEmails |-> {},
     lastMultiSelectData |-> {}, multiSelectSidebar |-> 0,
     isMultiSidebarHidden |-> FALSE, shows |-> NoContent, runs |-> {},
     started |-> 0, changedHidden |-> FALSE]

\* The popup is not loading the email count.
NoLoads == [isLoading |-> FALSE, init |-> FALSE, timers |-> 0, calls |-> {}]

\* No invocation returned in the last step.
NoEvent == [type |-> "none", pc |-> "", res |-> Pending, backend |-> Pending]

StartupWith(stored, readOk, w) ==
    /\ storage = stored
    /\ summaryCache = loadSummaryCache(stored, readOk)
    /\ inFlightSummaries = EmptyMap
    /\ summaryQueue = <<>>
    /\ isProcessingSummaryQueue = FALSE
    /\ tasks = EmptyMap
    /\ inv = EmptyBag
    /\ enqueued = <<>>
    /\ ev = NoEvent
    /\ keyLog = {}
    /\ currentSidebar = 0
    /\ multiRun = NoRun
    /\ watch = w
    /\ popup = NoPopup
    /\ peer = NoPeer
    /\ multiSelect = NoMulti
    /\ loads = NoLoads

Startup(stored, readOk) == StartupWith(stored, readOk, NoWatch)

Init == Startup(EmptyMap, TRUE)
InitWide == \E stored \in StoredAtStartup, readOk \in BOOLEAN : Startup(stored, readOk)
\* loadApiKey found a key in storage, or none.
InitAnyKey ==
    \E apiKey \in BOOLEAN :
        StartupWith(EmptyMap, TRUE, [NoWatch EXCEPT !.apiKey = apiKey])

(***************************************************************************)
(* Faulty variants of single steps of the code: the properties at the end  *)
(* are also run against the program with one of these in place, where     *)
(* they must fail.                                                         *)
(***************************************************************************)
\* processSummaryQueue without its isProcessingSummaryQueue guard
QueueNeverBusy(busy) == FALSE
\* unshift instead of push
PushFront(q, t) == <<t>> \o q
\* a catch block that calls the backend twice
OnWrapperErrorTwice(r) ==
    [r EXCEPT !.pc = "fallback", !.task = 0, !.direct = r.direct + 2]
\* delete after the await instead of in a finally block
ReleaseOnSuccessOnly(m, id, fulfilled) == IF fulfilled THEN MapDelete(m, id) ELSE m
\* no in-flight check
InFlightNeverHas(m, id) == FALSE
\* setCachedSummary without its try / catch
PersistFailedThrows(v) == Err("storage failed")
\* a runner that takes a task only when the queue holds more than one
processSummaryQueueLazy(qs) ==
    IF qs.busy \/ Len(qs.q) < 2 THEN qs
    ELSE [qs EXCEPT !.q = Tail(qs.q), !.busy = TRUE, !.ts[Head(qs.q)].st = "backend"]

\* a setCachedSummary that writes to chrome.storage.local only
setCachedSummaryStorageOnly(cache, id, summary) == cache

\* a handleEmailOpen without its `if (!this.apiKey) return`
handleEmailOpenKeyless(w, sidebar) ==
    /\ ~w.isMultiSelectMode
    /\ w.ready
    /\ sidebar = 0

\* a runner whose `finally` block is skipped when runFn threw
FinallyAfterSuccess(qs, ok) == IF ok THEN [qs EXCEPT !.busy = FALSE] ELSE qs

(***************************************************************************)
(* Serialized task queue.  qs = [q, busy, ts, enq] stands for summaryQueue, *)
(* isProcessingSummaryQueue, tasks and enqueued while one synchronous      *)
(* stretch of code works on them.                                          *)
(***************************************************************************)
QueueState ==
    [q |-> summaryQueue, busy |-> isProcessingSummaryQueue, ts |-> tasks,
     enq |-> enqueued]

Running(ts) ==
    {t \in DOMAIN ts : ts[t].st \in {"backend", "storageGet", "storageSet"}}
Outstanding(ts) == {t \in DOMAIN ts : ts[t].st # "settled"}

\* The identity of a new task object: the least one no live task has.
NewTaskId(ts) ==
    CHOOSE n \in 1..(Cardinality(DOMAIN ts) + 1) :
        n \notin DOMAIN ts /\ \A m \in 1..(n - 1) : m \in DOMAIN ts

\* if (this.isProcessingSummaryQueue) return;
QueueBusy(busy) == busy

\* this.summaryQueue.push(task) / this.summaryQueue.shift()
Push(q, t) == Append(q, t)
Shift(q) == [task |-> Head(q), rest |-> Tail(q)]

\* processSummaryQueue up to `await task.runFn()`: runFn calls
\* _originalGenerateEmailSummary, which issues the backend request at once.
processSummaryQueue(qs) ==
    IF QueueBusy(qs.busy) \/ qs.q = <<>> THEN qs
    ELSE LET s == Shift(qs.q)
         IN  [qs EXCEPT !.q = s.rest, !.busy = TRUE,
                        !.ts[s.task].st = "backend"]

NewTask(id) ==
    [id |-> id, st |-> "queued", promise |-> "pending", val |-> "",
     raw |-> EmptyMap]

enqueueSummaryTask(qs, t, id) ==
    processSummaryQueue([qs EXCEPT !.q = Push(qs.q, t),
                                   !.ts = MapSet(qs.ts, t, NewTask(id)),
                                   !.enq = Append(qs.enq, t)])

\* processSummaryQueue after `await task.runFn()`: task.resolve / task.reject,
\* then the finally block.
\* finally { this.isProcessingSummaryQueue = false; ... }
Finally(qs, ok) == [qs EXCEPT !.busy = FALSE]

settleTask(qs, t, out) ==
    LET done == [Finally(qs, out.ok) EXCEPT
                           !.ts[t].st = "settled",
                           !.ts[t].promise = IF out.ok THEN "fulfilled" ELSE "rejected",
                           !.ts[t].val = out.val,
                           !.ts[t].raw = EmptyMap,
                           !.enq = SelectSeq(qs.enq, LAMBDA x : x # t)]
    IN  IF Len(done.q) > 0 THEN processSummaryQueue(done) ELSE done

\* The promises somebody still holds: awaited by an invocation, or in the map.
Held(iv, ifm) ==
    {r.task : r \in {x \in BagToSet(iv) : x.pc \in {"awaitTask", "join"}}}
        \cup {ifm[k] : k \in DOMAIN ifm}
Live(ts, iv, ifm) ==
    Restrict(ts, {t \in DOMAIN ts : ts[t].st # "settled" \/ t \in Held(iv, ifm)})

SetQueue(qs, iv, ifm) ==
    /\ summaryQueue' = qs.q
    /\ isProcessingSummaryQueue' = qs.busy
    /\ tasks' = Live(qs.ts, iv, ifm)
    /\ enqueued' = qs.enq

(***************************************************************************)
(* Orchestrator: generateEmailSummaryWithCacheQueue, installed over        *)
(* generateEmailSummary.  pc of an invocation:                             *)
(*   "key"       suspended in `await this.computeSummaryId(...)`           *)
(*   "awaitTask" suspended in `await taskPromise` (it enqueued the task)   *)
(*   "join"      suspended in `await this.inFlightSummaries.get(id)`       *)
(*   "fallback"  suspended in `await this._originalGenerateEmailSummary`   *)
(*               of the catch block (a direct backend call is in flight)   *)
(*   "delay"     returned; its generateMultiEmailSummaries loop is in      *)
(*               `await this.delay(500)`                                   *)
(* task: the promise it awaits (0: none); own: it enqueued a task;         *)
(* direct: direct backend calls it issued.                                 *)
(***************************************************************************)
NewInvocation(id, multi) ==
    [pc |-> "key", id |-> id, multi |-> multi, task |-> 0, own |-> FALSE,
     direct |-> 0]

Delaying ==
    [pc |-> "delay", id |-> Null, multi |-> TRUE, task |-> 0, own |-> FALSE,
     direct |-> 0]

Frames == BagToSet(inv)
Replace(iv, r, r2) == (iv (-) SetToBag({r})) (+) SetToBag({r2})
Remove(iv, r) == iv (-) SetToBag({r})

\* The invocations of bag B that are among those of the set S.
CountIn(B, S) == BagCardinality([x \in BagToSet(B) \cap S |-> B[x]])

\* Backend calls caused by an invocation: its task's and its direct ones.
Calls(r) == r.direct + (IF r.own THEN 1 ELSE 0)

\* catch (err) { return await this._originalGenerateEmailSummary(...) }
OnWrapperError(r) ==
    [r EXCEPT !.pc = "fallback", !.task = 0, !.direct = r.direct + 1]

\* finally { this.inFlightSummaries.delete(id) }
ReleaseInFlight(m, id, fulfilled) == MapDelete(m, id)

\* if (this.inFlightSummaries.has(id))
InFlightHas(m, id) == MapHas(m, id)

\* The invocation leaves the wrapper; a call made by the multi-select loop is
\* followed by the loop's delay.
Leave(iv, r) == IF r.multi THEN Replace(iv, r, Delaying) ELSE Remove(iv, r)

\* return / throw out of the wrapper with outcome `out`; `backend` is the
\* outcome of the direct call when it returns from the catch block.
Return(r, out, backend) ==
    /\ inv' = Leave(inv, r)
    /\ ev' = [type |-> "return", pc |-> r.pc, res |-> out, backend |-> backend]

\* The wrapper's try block threw: the catch block issues the direct call.
Threw(r) ==
    /\ inv' = Replace(inv, r, OnWrapperError(r))
    /\ ev' = NoEvent

\* createEmailSidebar: the open mail is summarized; no options are passed.
OpenEmail(email, dom, digestOk) ==
    LET r == NewInvocation(
                 computeSummaryId("", email.subject, email.body, "", dom, digestOk),
                 FALSE)
    IN  /\ inv' = inv (+) SetToBag({r})
        /\ ev' = NoEvent
        /\ UNCHANGED <<outer, summaryCache, storage, inFlightSummaries, summaryQueue,
                       isProcessingSummaryQueue, tasks, enqueued>>

\* generateMultiEmailSummaries, one turn of its loop for a mail whose id
\* handleMultiSelect computed: a cached mail is pushed without a call and
\* without a delay; any other goes through generateEmailSummary with
\* { id: email.id, time: email.time }.
MultiSelect(email, rowMid, dom, digestOk) ==
    LET id == computeRowEmailId(rowMid, email, digestOk)
        cached == getCachedSummary(id)
        r == NewInvocation(
                 computeSummaryId(id, email.subject, email.body, email.time,
                                  dom, digestOk),
                 TRUE)
    IN  /\ \A x \in Frames : ~x.multi
        /\ IF cached # Null
           THEN /\ inv' = inv
                /\ ev' = NoEvent
           ELSE /\ inv' = inv (+) SetToBag({r})
                /\ ev' = NoEvent
        /\ UNCHANGED <<outer, summaryCache, storage, inFlightSummaries, summaryQueue,
                       isProcessingSummaryQueue, tasks, enqueued>>

\* The wrapper from the resumption after computeSummaryId to its next await.
KeyResolved(r) ==
    LET cached == getCachedSummary(r.id)
        t == NewTaskId(tasks)
        qs == enqueueSummaryTask(QueueState, t, r.id)
        joined == [r EXCEPT !.pc = "join", !.task = inFlightSummaries[r.id]]
        owner == [r EXCEPT !.pc = "awaitTask", !.task = t, !.own = TRUE]
    IN  /\ r.pc = "key"
        /\ UNCHANGED <<outer, summaryCache, storage>>
        /\ IF r.id = Thrown
           THEN /\ Threw(r)
                /\ UNCHANGED <<inFlightSummaries, summaryQueue,
                               isProcessingSummaryQueue, tasks, enqueued>>
           ELSE IF cached # Null
           THEN /\ Return(r, Ok(cached), Pending)
                /\ UNCHANGED <<inFlightSummaries, summaryQueue,
                               isProcessingSummaryQueue, tasks, enqueued>>
           ELSE IF InFlightHas(inFlightSummaries, r.id)
           THEN /\ inv' = Replace(inv, r, joined)
                /\ ev' = NoEvent
                /\ UNCHANGED <<inFlightSummaries, summaryQueue,
                               isProcessingSummaryQueue, tasks, enqueued>>
           ELSE /\ inFlightSummaries' = MapSet(inFlightSummaries, r.id, t)
                /\ inv' = Replace(inv, r, owner)
                /\ SetQueue(qs, inv', inFlightSummaries')
                /\ ev' = NoEvent

\* setCachedSummary, its first statement: this.summaryCache.set(id, summary).
setCachedSummary(cache, id, summary) == MapSet(cache, id, summary)

\* runFn resumes with the backend's answer: a failure leaves runFn and
\* settles the task; a text goes to setCachedSummary, which sets the Map and
\* suspends in chrome.storage.local.get.
TaskBackendSettles(t, resp) ==
    LET out == callGeminiAPI(resp)
        qs == settleTask(QueueState, t, out)
    IN  /\ tasks[t].st = "backend"
        /\ UNCHANGED <<outer, storage, inFlightSummaries, inv>>
        /\ IF out.ok
           THEN /\ summaryCache' = setCachedSummary(summaryCache, tasks[t].id, out.val)
                /\ tasks' = [tasks EXCEPT ![t].st = "storageGet", ![t].val = out.val]
                /\ ev' = NoEvent
                /\ UNCHANGED <<summaryQueue, isProcessingSummaryQueue, enqueued>>
           ELSE /\ SetQueue(qs, inv, inFlightSummaries)
                /\ ev' = NoEvent
                /\ UNCHANGED summaryCache

\* setCachedSummary's catch (e) { console.warn(...) }: what runFn, which
\* goes on to `return summary`, comes to when storage threw.
PersistFailed(v) == Ok(v)

\* setCachedSummary after chrome.storage.local.get: raw[id] = summary and the
\* write is issued; a failed read is caught and runFn returns the summary.
StorageGetDone(t, readOk) ==
    LET qs == settleTask(QueueState, t, PersistFailed(tasks[t].val))
    IN  /\ tasks[t].st = "storageGet"
        /\ UNCHANGED <<outer, summaryCache, storage, inFlightSummaries, inv>>
        /\ IF readOk
           THEN /\ tasks' = [tasks EXCEPT
                                ![t].st = "storageSet",
                                ![t].raw = MapSet(storage, tasks[t].id, tasks[t].val)]
                /\ ev' = NoEvent
                /\ UNCHANGED <<summaryQueue, isProcessingSummaryQueue, enqueued>>
           ELSE /\ SetQueue(qs, inv, inFlightSummaries)
                /\ ev' = NoEvent

\* setCachedSummary after chrome.storage.local.set (a failure is caught);
\* runFn returns the summary and the task settles.
StorageSetDone(t, writeOk) ==
    LET qs == settleTask(QueueState, t, IF writeOk THEN Ok(tasks[t].val)
                                        ELSE PersistFailed(tasks[t].val))
    IN  /\ tasks[t].st = "storageSet"
        /\ storage' = IF writeOk THEN tasks[t].raw ELSE storage
        /\ SetQueue(qs, inv, inFlightSummaries)
        /\ ev' = NoEvent
        /\ UNCHANGED <<outer, summaryCache, inFlightSummaries, inv>>

\* The invocation that enqueued the task resumes from `await taskPromise`:
\* the finally block, then return, or the outer catch on a rejection.
AwaitTaskResumes(r) ==
    LET t == tasks[r.task]
    IN  /\ r.pc = "awaitTask"
        /\ t.promise # "pending"
        /\ inFlightSummaries' =
               ReleaseInFlight(inFlightSummaries, r.id, t.promise = "fulfilled")
        /\ IF t.promise = "fulfilled"
           THEN Return(r, Ok(t.val), Pending)
           ELSE Threw(r)
        /\ tasks' = Live(tasks, inv', inFlightSummaries')
        /\ UNCHANGED <<outer, summaryCache, storage, summaryQueue,
                       isProcessingSummaryQueue, enqueued>>

\* An invocation that found the id in flight resumes from its await.
JoinResumes(r) ==
    LET t == tasks[r.task]
    IN  /\ r.pc = "join"
        /\ t.promise # "pending"
        /\ IF t.promise = "fulfilled"
           THEN Return(r, Ok(t.val), Pending)
           ELSE Threw(r)
        /\ tasks' = Live(tasks, inv', inFlightSummaries)
        /\ UNCHANGED <<outer, summaryCache, storage, inFlightSummaries, summaryQueue,
                       isProcessingSummaryQueue, enqueued>>

\* The direct call of the catch block answers; the wrapper returns or throws it.
FallbackSettles(r, resp) ==
    LET out == callGeminiAPI(resp)
    IN  /\ r.pc = "fallback"
        /\ Return(r, out, out)
        /\ UNCHANGED <<outer, summaryCache, storage, inFlightSummaries, summaryQueue,
                       isProcessingSummaryQueue, tasks, enqueued>>

\* 500 ms pass: the pending delay(500) of the multi-select loop resolves and
\* the loop goes on to its next mail.
Tick ==
    /\ \E x \in Frames : x.pc = "delay"
    /\ inv' = Remove(inv, Delaying)
    /\ ev' = NoEvent
    /\ UNCHANGED <<outer, summaryCache, storage, inFlightSummaries, summaryQueue,
                   isProcessingSummaryQueue, tasks, enqueued>>

\* The page is reloaded while no summary is awaited: a new content script
\* runs the constructor and init(), which loads the cache from storage.
Restart(readOk) ==
    /\ inv = EmptyBag
    /\ summaryCache' = loadSummaryCache(storage, readOk)
    /\ inFlightSummaries' = EmptyMap
    /\ summaryQueue' = <<>>
    /\ isProcessingSummaryQueue' = FALSE
    /\ tasks' = EmptyMap
    /\ enqueued' = <<>>
    /\ ev' = [NoEvent EXCEPT !.type = IF readOk THEN "loaded" ELSE "loadFailed"]
    /\ UNCHANGED <<outer, storage, inv>>

(***************************************************************************)
(* The single-mail sidebar.                                                *)
(***************************************************************************)
\* An invocation of createEmailSidebar suspended in
\* `await this.generateEmailSummary(...)`; el is its local `sidebar` element.
SidebarFrame(id, el) ==
    [pc |-> "sidebar", id |-> id, multi |-> FALSE, task |-> 0, own |-> FALSE,
     direct |-> 0, el |-> el]

SidebarFrames(iv) == {r \in BagToSet(iv) : r.pc = "sidebar"}
WrapperFrames(iv) ==
    {r \in BagToSet(iv) : r.pc \in {"key", "awaitTask", "join", "fallback"}}

\* document.createElement('div'): an element no pending caller holds.
NewSidebar ==
    CHOOSE n \in 1..(BagCardinality(inv) + 1) :
        /\ \A r \in SidebarFrames(inv) : r.el # n
        /\ \A m \in 1..(n - 1) : \E r \in SidebarFrames(inv) : r.el = m

\* The wrapper has returned or thrown in the step just taken; the
\* continuation of its caller runs before any other event is handled.
Handoff == ev.type = "return"

\* an update that looks its sidebar up in the document
updateSidebarInDocument(attached, out) ==
    IF attached THEN Ok(IF out.ok THEN out.val ELSE "Unable to process email")
    ELSE Err("TypeError")

\* updateSidebarContent(sidebar, summary, ...) after the await, or
\* updateSidebarError(sidebar, error.message) in the catch block: both write
\* into the element they are given, in the document or not.
updateSidebarContent(attached, out) ==
    Ok(IF out.ok THEN out.val ELSE "Unable to process email")

\* createEmailSidebar up to the first await of the wrapper it calls; with a
\* sidebar in the document it returns at once.
CreateEmailSidebar(email, dom, digestOk) ==
    LET id == computeSummaryId("", email.subject, email.body, "", dom, digestOk)
    IN  /\ currentSidebar = 0
        /\ inv' = inv (+) SetToBag({NewInvocation(id, FALSE)})
                      (+) SetToBag({SidebarFrame(id, NewSidebar)})
        /\ currentSidebar' = NewSidebar
        /\ ev' = NoEvent
        /\ UNCHANGED <<exceptCurrentSidebar, summaryCache, storage, inFlightSummaries,
                       summaryQueue, isProcessingSummaryQueue, tasks, enqueued>>

\* removeEmailSidebar: the close button, a navigation or handleMultiSelect.
RemoveEmailSidebar ==
    /\ currentSidebar # 0
    /\ currentSidebar' = 0
    /\ ev' = [NoEvent EXCEPT !.type = "closed"]
    /\ UNCHANGED <<exceptCurrentSidebar, summaryCache, storage, inFlightSummaries,
                   summaryQueue, isProcessingSummaryQueue, tasks, inv, enqueued>>

\* createEmailSidebar resumes from its await with what the wrapper returned
\* or threw, and writes it into its sidebar element.
SidebarResumes(c) ==
    /\ Handoff
    /\ c.pc = "sidebar"
    /\ CountIn(inv, {r \in SidebarFrames(inv) : r.id = c.id})
           > CountIn(inv, {r \in WrapperFrames(inv) : r.id = c.id})
    /\ inv' = Remove(inv, c)
    /\ ev' = [type |-> "rendered",
              pc |-> IF c.el = currentSidebar THEN "attached" ELSE "detached",
              res |-> updateSidebarContent(c.el = currentSidebar, ev.res),
              backend |-> ev.res]
    /\ UNCHANGED <<outer, summaryCache, storage, inFlightSummaries,
                   summaryQueue, isProcessingSummaryQueue, tasks, enqueued>>

(***************************************************************************)
(* generateMultiEmailSummaries.                                            *)
(***************************************************************************)
\* summaries.push({ ...email, summary }) with the summary returned, or with
\* 'Error generating summary: ' + error.message in the catch block.
Entry(email, out) ==
    [id |-> email.id,
     summary |-> IF out.ok THEN out.val
                 ELSE "Error generating summary: " \o out.val]

\* a loop that pushes nothing for a mail whose summary failed
pushIfSummarized(summaries, email, out) ==
    IF out.ok THEN Append(summaries, Entry(email, out)) ELSE summaries

pushSummary(summaries, email, out) == Append(summaries, Entry(email, out))

\* The for loop from the head of an iteration to its next await: cached
\* mails are pushed and skipped (`continue`), the first other mail is
\* passed to generateEmailSummary; after the last mail the function returns.
RECURSIVE NextIteration(_)
NextIteration(run) ==
    IF run.i = Len(run.emailsData) THEN [run EXCEPT !.st = "returned"]
    ELSE LET email == run.emailsData[run.i + 1]
             cached == IF email.id # "" THEN getCachedSummary(email.id) ELSE Null
         IN  IF cached # Null
             THEN NextIteration([run EXCEPT
                      !.i = @ + 1,
                      !.summaries = pushSummary(@, email, Ok(cached))])
             ELSE [run EXCEPT !.i = @ + 1, !.st = "call"]

\* The wrapper invocation a run suspended in `await generateEmailSummary`
\* has made: { id: email.id, time: email.time } is passed.
CallOf(run, dom, digestOk) ==
    IF run.st # "call" THEN EmptyBag
    ELSE LET email == run.emailsData[run.i]
         IN  SetToBag({NewInvocation(
                 computeSummaryId(email.id, email.subject, email.body,
                                  email.time, dom, digestOk), TRUE)})

\* The rows handleMultiSelect read, with the ids computeRowEmailId gave them.
SelectedEmails ==
    {[id |-> computeRowEmailId(mid, email, TRUE), subject |-> email.subject,
      body |-> email.body, time |-> email.time] :
        mid \in MessageIds \ {""}, email \in Emails}

\* handleMultiSelect calls generateMultiEmailSummaries(emailsData).
GenerateMultiEmailSummaries(emailsData, dom, digestOk) ==
    LET run == NextIteration([NoRun EXCEPT !.emailsData = emailsData])
    IN  /\ multiRun.st \in {"idle", "returned"}
        /\ multiRun' = run
        /\ inv' = inv (+) CallOf(run, dom, digestOk)
        /\ ev' = NoEvent
        /\ UNCHANGED <<exceptMultiRun, summaryCache, storage, inFlightSummaries,
                       summaryQueue, isProcessingSummaryQueue, tasks, enqueued>>

\* The loop resumes from `await this.generateEmailSummary(...)`: it pushes
\* the summary or the error text and suspends in `await this.delay(500)`.
MultiResumes ==
    /\ Handoff
    /\ multiRun.st = "call"
    /\ multiRun' = [multiRun EXCEPT
           !.st = "delay",
           !.summaries = pushSummary(@, multiRun.emailsData[multiRun.i], ev.res)]
    /\ ev' = [ev EXCEPT !.type = "pushed"]
    /\ UNCHANGED <<exceptMultiRun, summaryCache, storage, inFlightSummaries,
                   summaryQueue, isProcessingSummaryQueue, tasks, inv, enqueued>>

\* delay(500) resolves and the loop goes on.
DelayElapsed(dom, digestOk) ==
    LET run == NextIteration(multiRun)
    IN  /\ multiRun.st = "delay"
        /\ multiRun' = run
        /\ inv' = Remove(inv, Delaying) (+) CallOf(run, dom, digestOk)
        /\ ev' = NoEvent
        /\ UNCHANGED <<exceptMultiRun, summaryCache, storage, inFlightSummaries,
                       summaryQueue, isProcessingSummaryQueue, tasks, enqueued>>

(***************************************************************************)
(* Detection of the open mail: startObservingGmail, checkAndShowSidebar,   *)
(* handleEmailOpen.  watch.emailView is the data-message-id of the mail    *)
(* the page shows ("" for none), watch.ready whether its content (10       *)
(* characters or more) and subject can be extracted, watch.sidebarFor the  *)
(* mail the sidebar in the document was created for.                       *)
(***************************************************************************)
\* Gmail changes the page: the MutationObserver (re)starts its 100 ms timer.
DomMutation(view, ready) ==
    /\ <<view, ready>> # <<watch.emailView, watch.ready>>
    /\ view = "" => ~ready
    /\ watch' = [watch EXCEPT !.emailView = view, !.ready = ready,
                              !.debounceTimer = TRUE]
    /\ ev' = NoEvent
    /\ UNCHANGED <<exceptWatch, summaryCache, storage, inFlightSummaries,
                   summaryQueue, isProcessingSummaryQueue, tasks, inv, enqueued>>

\* checkMultiSelect enters multi-select mode or clearMultiSelect leaves it.
MultiSelectModeChanges ==
    /\ watch' = [watch EXCEPT !.isMultiSelectMode = ~@]
    /\ ev' = NoEvent
    /\ UNCHANGED <<exceptWatch, summaryCache, storage, inFlightSummaries,
                   summaryQueue, isProcessingSummaryQueue, tasks, inv, enqueued>>

\* handleEmailOpen gets as far as createEmailSidebar, and createEmailSidebar
\* past its duplicate test.
handleEmailOpen(w, sidebar) ==
    /\ w.apiKey
    /\ ~w.isMultiSelectMode
    /\ w.ready
    /\ sidebar = 0

\* The timer fires: checkAndShowSidebar, with handleEmailOpen and
\* createEmailSidebar up to the first await of the wrapper.
CheckAndShowSidebar(digestOk) ==
    LET v == watch.emailView
        dom == [mid |-> v, time |-> "t1"]
        email == CHOOSE e \in Emails : TRUE
        id == computeSummaryId("", email.subject, email.body, "", dom, digestOk)
        w == [watch EXCEPT !.debounceTimer = FALSE]
    IN  /\ watch.debounceTimer
        /\ ev' = NoEvent
        /\ UNCHANGED <<exceptWatchSidebar, summaryCache, storage, inFlightSummaries,
                       summaryQueue, isProcessingSummaryQueue, tasks, enqueued>>
        /\ IF v = ""
           THEN /\ IF watch.currentEmailId # Null
                   THEN /\ currentSidebar' = 0
                        /\ watch' = [w EXCEPT !.currentEmailId = Null,
                                              !.sidebarFor = Null]
                   ELSE /\ watch' = w
                        /\ UNCHANGED currentSidebar
                /\ UNCHANGED inv
           ELSE IF v # watch.currentEmailId /\ handleEmailOpen(watch, currentSidebar)
           THEN /\ inv' = inv (+) SetToBag({NewInvocation(id, FALSE)})
                              (+) SetToBag({SidebarFrame(id, NewSidebar)})
                /\ currentSidebar' = NewSidebar
                /\ watch' = [w EXCEPT !.currentEmailId = v, !.sidebarFor = v]
           ELSE /\ watch' = [w EXCEPT !.currentEmailId = v]
                /\ UNCHANGED <<inv, currentSidebar>>

(***************************************************************************)
(* The backend client on its own.                                          *)
(***************************************************************************)
\* The prompts of generateEmailSummary, generateSuggestedReply and
\* generateCustomReply, and one of the documentation's examples.
Prompts == {"summary", "suggested", "custom", "example"}

\* Responses, and texts with white space in front and inside.
BackendResponses ==
    Responses \cup { [net |-> TRUE, ok |-> TRUE, text |-> " v2 "],
                     [net |-> TRUE, ok |-> TRUE, text |-> "v 3"] }

\* An invocation of callGeminiAPI suspended in its fetch: one request is out.
FetchFrame(prompt) ==
    [pc |-> "fetch", id |-> prompt, multi |-> FALSE, task |-> 0,
     own |-> FALSE, direct |-> 1]

FetchFrames == {FetchFrame(p) : p \in Prompts}

\* callGeminiAPI is called: fetch(...) is issued and awaited.
GeminiCall(prompt) ==
    /\ inv' = inv (+) SetToBag({FetchFrame(prompt)})
    /\ ev' = [NoEvent EXCEPT !.type = "fetch"]
    /\ UNCHANGED <<outer, summaryCache, storage, inFlightSummaries, summaryQueue,
                   isProcessingSummaryQueue, tasks, enqueued>>

\* The HTTP exchange of one invocation ends: it throws or returns; `backend`
\* records what the exchange came to.
GeminiSettles(r, resp) ==
    /\ r.pc = "fetch"
    /\ inv' = Remove(inv, r)
    /\ ev' = [type |-> "generated", pc |-> r.pc, res |-> callGeminiAPI(resp),
              backend |-> resp]
    /\ UNCHANGED <<outer, summaryCache, storage, inFlightSummaries, summaryQueue,
                   isProcessingSummaryQueue, tasks, enqueued>>

(***************************************************************************)
(* Custom replies.                                                         *)
(***************************************************************************)
\* What the user typed into the custom-reply box.
UserMessages == {"u1"}

\* An invocation of generateCustomReply suspended in its callGeminiAPI call.
ReplyFrame(userMessage) ==
    [pc |-> "reply", id |-> userMessage, multi |-> FALSE, task |-> 0,
     own |-> FALSE, direct |-> 1]

ReplyFrames == {ReplyFrame(m) : m \in UserMessages}

\* generateCustomReply sharing the call of an identical pending request
generateCustomReplyShared(iv, userMessage) ==
    IF BagIn(ReplyFrame(userMessage), iv) THEN iv
    ELSE iv (+) SetToBag({ReplyFrame(userMessage)})

\* generateCustomReply up to its await: the prompt is built and
\* callGeminiAPI(prompt, 300) is called.
generateCustomReply(iv, userMessage) == iv (+) SetToBag({ReplyFrame(userMessage)})

\* A custom reply is requested for the open mail.
CustomReply(userMessage) ==
    /\ inv' = generateCustomReply(inv, userMessage)
    /\ ev' = [NoEvent EXCEPT !.type = "replyCall"]
    /\ UNCHANGED <<outer, summaryCache, storage, inFlightSummaries, summaryQueue,
                   isProcessingSummaryQueue, tasks, enqueued>>

\* The backend answers a custom-reply call, which returns or throws the
\* outcome of callGeminiAPI to the button handler.
ReplySettles(r, resp) ==
    /\ r.pc = "reply"
    /\ inv' = Remove(inv, r)
    /\ ev' = [type |-> "replied", pc |-> r.pc, res |-> callGeminiAPI(resp),
              backend |-> callGeminiAPI(resp)]
    /\ UNCHANGED <<outer, summaryCache, storage, inFlightSummaries, summaryQueue,
                   isProcessingSummaryQueue, tasks, enqueued>>

\* One call of computeSummaryId, by generateEmailSummaryWithCacheQueue or by
\* anything else holding the assistant: arguments, page state and result are
\* put on record; the call assigns no field.
ComputeKey(explicitId, subject, body, time, dom, digestOk) ==
    /\ Cardinality(keyLog) < MaxKeyCalls
    /\ keyLog' = keyLog \cup
           {[explicitId |-> explicitId, subject |-> subject, body |-> body,
             time |-> time, dom |-> dom,
             key |-> computeSummaryId(explicitId, subject, body, time, dom, digestOk)]}
    /\ UNCHANGED <<exceptKeyLog, summaryCache, storage, inFlightSummaries,
                   summaryQueue, isProcessingSummaryQueue, tasks, inv, enqueued, ev>>

(***************************************************************************)
(* Spec: any number of mails opened one after another, up to MaxActive     *)
(* summaries being awaited at a time; storage works.                       *)
(***************************************************************************)
Next ==
    \/ \E email \in Emails, dom \in Doms, digestOk \in BOOLEAN :
           BagCardinality(inv) < MaxActive /\ OpenEmail(email, dom, digestOk)
    \/ \E r \in Frames : KeyResolved(r)
    \/ \E t \in DOMAIN tasks, resp \in Answers : TaskBackendSettles(t, resp)
    \/ \E t \in DOMAIN tasks : StorageGetDone(t, TRUE)
    \/ \E t \in DOMAIN tasks : StorageSetDone(t, TRUE)
    \/ \E r \in Frames : AwaitTaskResumes(r)
    \/ \E r \in Frames : JoinResumes(r)
    \/ \E r \in Frames, resp \in Answers : FallbackSettles(r, resp)

Spec == Init /\ [][Next]_vars

(***************************************************************************)
(* SpecLive: Spec, with every request a running task waits for answered in *)
(* the end (the backend and chrome.storage settle their promises).         *)
(***************************************************************************)
RunProgress ==
    \/ \E t \in DOMAIN tasks, resp \in Answers : TaskBackendSettles(t, resp)
    \/ \E t \in DOMAIN tasks : StorageGetDone(t, TRUE)
    \/ \E t \in DOMAIN tasks : StorageSetDone(t, TRUE)

SpecLive == Init /\ [][Next]_vars /\ WF_vars(RunProgress)

(***************************************************************************)
(* SpecMulti: mails are opened while the multi-select loop runs, up to     *)
(* MaxMulti summaries being awaited or delayed at a time.                  *)
(***************************************************************************)
NextMulti ==
    \/ \E email \in Emails, dom \in Doms, digestOk \in BOOLEAN :
           BagCardinality(inv) < MaxMulti /\ OpenEmail(email, dom, digestOk)
    \/ \E email \in Emails, rowMid \in MessageIds, dom \in Doms, digestOk \in BOOLEAN :
           BagCardinality(inv) < MaxMulti /\ MultiSelect(email, rowMid, dom, digestOk)
    \/ \E r \in Frames : KeyResolved(r)
    \/ \E t \in DOMAIN tasks, resp \in Answers : TaskBackendSettles(t, resp)
    \/ \E t \in DOMAIN tasks : StorageGetDone(t, TRUE)
    \/ \E t \in DOMAIN tasks : StorageSetDone(t, TRUE)
    \/ \E r \in Frames : AwaitTaskResumes(r)
    \/ \E r \in Frames : JoinResumes(r)
    \/ \E r \in Frames, resp \in Answers : FallbackSettles(r, resp)
    \/ Tick

SpecMulti == Init /\ [][NextMulti]_vars

(***************************************************************************)
(* SpecSeq: sequential callers.  A summary is asked for only when every    *)
(* earlier invocation has returned; the backend may answer with a blank    *)
(* text and storage, also at startup, may fail.                            *)
(***************************************************************************)
NextSeq ==
    \/ \E email \in Emails, dom \in Doms, digestOk \in BOOLEAN :
           inv = EmptyBag /\ OpenEmail(email, dom, digestOk)
    \/ \E r \in Frames : KeyResolved(r)
    \/ \E t \in DOMAIN tasks, resp \in Responses : TaskBackendSettles(t, resp)
    \/ \E t \in DOMAIN tasks, readOk \in BOOLEAN : StorageGetDone(t, readOk)
    \/ \E t \in DOMAIN tasks, writeOk \in BOOLEAN : StorageSetDone(t, writeOk)
    \/ \E r \in Frames : AwaitTaskResumes(r)
    \/ \E r \in Frames, resp \in Responses : FallbackSettles(r, resp)

SpecSeq == InitWide /\ [][NextSeq]_vars

(***************************************************************************)
(* SpecKey: computeSummaryId applied to every combination of arguments and *)
(* page states below.  The bodies are longer than PrefixLen: Body1 and     *)
(* Body2 agree on their first PrefixLen characters, Body3 does not.        *)
(***************************************************************************)
Prefix1 == "Dear all, the meeting of Monday is moved to 10:00."
Prefix3 == "Dear all, the meeting of Friday is moved to 10:00."
Body1 == Prefix1 \o " Room 1."
Body2 == Prefix1 \o " Room 2."
Body3 == Prefix3 \o " Room 1."

ExplicitIds == {"", "mid:m2"}
KeySubjects == {"S1", "S2"}
KeyBodies == {Body1, Body2, Body3}
KeyTimes == {"", "t1"}
KeyDoms == { [mid |-> "",   time |-> "t1"],
             [mid |-> "",   time |-> "t2"],
             [mid |-> "m1", time |-> "t1"] }

NextKey ==
    \E explicitId \in ExplicitIds, subject \in KeySubjects, body \in KeyBodies,
       time \in KeyTimes, dom \in KeyDoms, digestOk \in BOOLEAN :
        ComputeKey(explicitId, subject, body, time, dom, digestOk)

SpecKey == Init /\ [][NextKey]_vars

(***************************************************************************)
(* SpecReply: summaries of up to MaxMulti overlapping callers, and up to   *)
(* MaxMulti custom replies requested meanwhile; storage works.             *)
(***************************************************************************)
NextReply ==
    \/ \E email \in Emails, dom \in Doms, digestOk \in BOOLEAN :
           /\ BagCardinality(inv) - CountIn(inv, ReplyFrames) < MaxMulti
           /\ OpenEmail(email, dom, digestOk)
    \/ \E r \in Frames : KeyResolved(r)
    \/ \E t \in DOMAIN tasks, resp \in Answers : TaskBackendSettles(t, resp)
    \/ \E t \in DOMAIN tasks : StorageGetDone(t, TRUE)
    \/ \E t \in DOMAIN tasks : StorageSetDone(t, TRUE)
    \/ \E r \in Frames : AwaitTaskResumes(r)
    \/ \E r \in Frames : JoinResumes(r)
    \/ \E r \in Frames, resp \in Answers : FallbackSettles(r, resp)
    \/ \E userMessage \in UserMessages :
           CountIn(inv, ReplyFrames) < MaxMulti /\ CustomReply(userMessage)
    \/ \E r \in Frames, resp \in Answers : ReplySettles(r, resp)

SpecReply == Init /\ [][NextReply]_vars

(***************************************************************************)
(* SpecBackend: up to MaxActive overlapping invocations of callGeminiAPI,  *)
(* each HTTP exchange ending in any of BackendResponses.                   *)
(***************************************************************************)
NextBackend ==
    \/ \E prompt \in Prompts :
           BagCardinality(inv) < MaxActive /\ GeminiCall(prompt)
    \/ \E r \in Frames, resp \in BackendResponses : GeminiSettles(r, resp)

SpecBackend == Init /\ [][NextBackend]_vars

(***************************************************************************)
(* SpecClose: mails are opened in the sidebar, which is closed at any      *)
(* time; up to MaxMulti createEmailSidebar calls are suspended at a time.  *)
(***************************************************************************)
NextClose ==
    \/ \E email \in Emails, dom \in Doms, digestOk \in BOOLEAN :
           /\ ~Handoff
           /\ CountIn(inv, SidebarFrames(inv)) < MaxMulti
           /\ CreateEmailSidebar(email, dom, digestOk)
    \/ ~Handoff /\ RemoveEmailSidebar
    \/ \E r \in Frames : ~Handoff /\ KeyResolved(r)
    \/ \E t \in DOMAIN tasks, resp \in Answers : ~Handoff /\ TaskBackendSettles(t, resp)
    \/ \E t \in DOMAIN tasks : ~Handoff /\ StorageGetDone(t, TRUE)
    \/ \E t \in DOMAIN tasks : ~Handoff /\ StorageSetDone(t, TRUE)
    \/ \E r \in Frames : ~Handoff /\ AwaitTaskResumes(r)
    \/ \E r \in Frames : ~Handoff /\ JoinResumes(r)
    \/ \E r \in Frames, resp \in Answers : ~Handoff /\ FallbackSettles(r, resp)
    \/ \E c \in Frames : SidebarResumes(c)

SpecClose == Init /\ [][NextClose]_vars

(***************************************************************************)
(* SpecBulk: generateMultiEmailSummaries is run again and again on 2 to    *)
(* MaxActive selected mails; the backend answers with any of Responses.    *)
(***************************************************************************)
Selections ==
    UNION {[1..n -> SelectedEmails] : n \in 2..MaxActive}

NextBulk ==
    \/ \E emailsData \in Selections, dom \in Doms, digestOk \in BOOLEAN :
           ~Handoff /\ GenerateMultiEmailSummaries(emailsData, dom, digestOk)
    \/ \E r \in Frames : ~Handoff /\ KeyResolved(r)
    \/ \E t \in DOMAIN tasks, resp \in Responses : ~Handoff /\ TaskBackendSettles(t, resp)
    \/ \E t \in DOMAIN tasks : ~Handoff /\ StorageGetDone(t, TRUE)
    \/ \E t \in DOMAIN tasks : ~Handoff /\ StorageSetDone(t, TRUE)
    \/ \E r \in Frames : ~Handoff /\ AwaitTaskResumes(r)
    \/ \E r \in Frames, resp \in Responses : ~Handoff /\ FallbackSettles(r, resp)
    \/ MultiResumes
    \/ \E dom \in Doms, digestOk \in BOOLEAN : ~Handoff /\ DelayElapsed(dom, digestOk)

SpecBulk == Init /\ [][NextBulk]_vars

(***************************************************************************)
(* SpecWatch: Gmail opens, fills in and closes mails; the timer of the     *)
(* observer fires in the end (setTimeout, 100 ms).  At most MaxMulti       *)
(* createEmailSidebar calls are suspended when the page changes.           *)
(***************************************************************************)
NextWatch ==
    \/ \E view \in MessageIds, ready \in BOOLEAN :
           /\ ~Handoff
           /\ CountIn(inv, SidebarFrames(inv)) < MaxMulti
           /\ DomMutation(view, ready)
    \/ ~Handoff /\ MultiSelectModeChanges
    \/ \E digestOk \in BOOLEAN : ~Handoff /\ CheckAndShowSidebar(digestOk)
    \/ \E r \in Frames : ~Handoff /\ KeyResolved(r)
    \/ \E t \in DOMAIN tasks, resp \in Answers : ~Handoff /\ TaskBackendSettles(t, resp)
    \/ \E t \in DOMAIN tasks : ~Handoff /\ StorageGetDone(t, TRUE)
    \/ \E t \in DOMAIN tasks : ~Handoff /\ StorageSetDone(t, TRUE)
    \/ \E r \in Frames : ~Handoff /\ AwaitTaskResumes(r)
    \/ \E r \in Frames : ~Handoff /\ JoinResumes(r)
    \/ \E r \in Frames, resp \in Answers : ~Handoff /\ FallbackSettles(r, resp)
    \/ \E c \in Frames : SidebarResumes(c)

TimerFires == \E digestOk \in BOOLEAN : ~Handoff /\ CheckAndShowSidebar(digestOk)

SpecWatch == Init /\ [][NextWatch]_vars /\ WF_vars(TimerFires)

(***************************************************************************)
(* The API key: saveApiKey and testApiKey of the popup, handleSaveApiKey   *)
(* of the background script.                                               *)
(***************************************************************************)
ApiKeyInputs == {"", " ", "k1", " k1 ", "k2"}
FetchOutcomes == {"ok", "status", "rejects"}

\* testApiKey: response.ok, false when fetch rejects.
testApiKey(fetched) == fetched = "ok"

\* loadApiKey when the popup opens; the page of an earlier popup is gone,
\* and init() goes on to checkGmailTab and loadEmailCount.
PopupOpens ==
    /\ popup' = [popup EXCEPT !.apiKey = popup.geminiApiKey, !.saves = {}]
    /\ loads' = [NoLoads EXCEPT !.init = TRUE]
    /\ ev' = [NoEvent EXCEPT !.type = "loadApiKey"]
    /\ UNCHANGED <<exceptPopupLoads, summaryCache, storage, inFlightSummaries,
                   summaryQueue, isProcessingSummaryQueue, tasks, inv, enqueued>>

\* saveApiKey up to `await this.testApiKey(apiKey)`.
SaveApiKey(input) ==
    LET apiKey == Trim(input)
    IN  /\ IF apiKey = ""
           THEN /\ ev' = [NoEvent EXCEPT !.type = "saveApiKey", !.pc = "empty"]
                /\ UNCHANGED popup
           ELSE /\ popup' = [popup EXCEPT !.saves = @ \cup {[key |-> apiKey, pc |-> "test"]}]
                /\ ev' = [NoEvent EXCEPT !.type = "saveApiKey", !.pc = "testing"]
        /\ UNCHANGED <<exceptPopup, summaryCache, storage, inFlightSummaries,
                       summaryQueue, isProcessingSummaryQueue, tasks, inv, enqueued>>

\* The test request comes back: saveApiKey up to the await of storage.set.
TestApiKeySettles(f, fetched) ==
    /\ f \in popup.saves /\ f.pc = "test"
    /\ IF testApiKey(fetched)
       THEN /\ popup' = [popup EXCEPT !.apiKey = f.key,
                                      !.tested = @ \cup {f.key},
                                      !.saves = (@ \ {f}) \cup {[f EXCEPT !.pc = "set"]}]
            /\ ev' = [NoEvent EXCEPT !.type = "testApiKey", !.pc = "valid"]
       ELSE /\ popup' = [popup EXCEPT !.saves = @ \ {f}]
            /\ ev' = [NoEvent EXCEPT !.type = "testApiKey", !.pc = "invalid"]
    /\ UNCHANGED <<exceptPopup, summaryCache, storage, inFlightSummaries,
                   summaryQueue, isProcessingSummaryQueue, tasks, inv, enqueued>>

\* chrome.storage.local.set({ geminiApiKey }) of saveApiKey settles; after
\* a success setTimeout(() => this.loadEmailCount(), 500).
ApiKeyStored(f, setOk) ==
    /\ f \in popup.saves /\ f.pc = "set"
    /\ popup' = [popup EXCEPT !.geminiApiKey = IF setOk THEN f.key ELSE @,
                              !.saves = @ \ {f}]
    /\ loads' = IF setOk THEN [loads EXCEPT !.timers = @ + 1] ELSE loads
    /\ ev' = [NoEvent EXCEPT !.type = "stored", !.pc = "popup"]
    /\ UNCHANGED <<exceptPopupLoads, summaryCache, storage, inFlightSummaries,
                   summaryQueue, isProcessingSummaryQueue, tasks, inv, enqueued>>

\* The background script receives { action: 'saveApiKey', apiKey }.
HandleSaveApiKey(apiKey, setOk) ==
    /\ popup' = [popup EXCEPT !.geminiApiKey = IF setOk THEN apiKey ELSE @]
    /\ ev' = [NoEvent EXCEPT !.type = "stored", !.pc = "background"]
    /\ UNCHANGED <<exceptPopup, summaryCache, storage, inFlightSummaries,
                   summaryQueue, isProcessingSummaryQueue, tasks, inv, enqueued>>

(***************************************************************************)
(* The email counter of the popup: loadEmailCount.                         *)
(***************************************************************************)
MaxLoads == 2       \* loadEmailCount calls scheduled or in progress

\* The loadEmailCount calls that are scheduled or in progress.
Scheduled(l) ==
    l.timers + Cardinality(l.calls) + (IF l.init THEN 1 ELSE 0)

\* loadEmailCount up to `await this.checkGmailTab()`
loadEmailCount(l, apiKey) ==
    IF l.isLoading THEN l
    ELSE IF apiKey \in {Null, ""} THEN l
    ELSE LET n == CHOOSE i \in 1..MaxLoads :
                      /\ \A f \in l.calls : f.n # i
                      /\ \A j \in 1..(i - 1) : \E f \in l.calls : f.n = j
         IN  [l EXCEPT !.calls = @ \cup {[n |-> n, pc |-> "checkGmailTab"]}]

\* init() after its awaits: if (this.apiKey) this.loadEmailCount().
InitLoadsEmailCount ==
    /\ loads.init
    /\ loads' = loadEmailCount([loads EXCEPT !.init = FALSE], popup.apiKey)
    /\ ev' = [NoEvent EXCEPT !.type = "loadEmailCount"]
    /\ UNCHANGED <<exceptLoads, summaryCache, storage, inFlightSummaries,
                   summaryQueue, isProcessingSummaryQueue, tasks, inv, enqueued>>

\* The timer set by saveApiKey fires.
TimerLoadsEmailCount ==
    /\ loads.timers > 0
    /\ loads' = loadEmailCount([loads EXCEPT !.timers = @ - 1], popup.apiKey)
    /\ ev' = [NoEvent EXCEPT !.type = "loadEmailCount"]
    /\ UNCHANGED <<exceptLoads, summaryCache, storage, inFlightSummaries,
                   summaryQueue, isProcessingSummaryQueue, tasks, inv, enqueued>>

\* checkGmailTab answers: return when the tab is not Gmail, else
\* isLoading = true and the call goes on to chrome.tabs.query.
GmailTabChecked(f, isGmail) ==
    /\ f \in loads.calls /\ f.pc = "checkGmailTab"
    /\ loads' = IF isGmail
                THEN [loads EXCEPT !.isLoading = TRUE,
                                   !.calls = (@ \ {f}) \cup {[f EXCEPT !.pc = "query"]}]
                ELSE [loads EXCEPT !.calls = @ \ {f}]
    /\ ev' = [NoEvent EXCEPT !.type = "checkGmailTab"]
    /\ UNCHANGED <<exceptLoads, summaryCache, storage, inFlightSummaries,
                   summaryQueue, isProcessingSummaryQueue, tasks, inv, enqueued>>

\* chrome.tabs.query answers: the getEmailsToday message is sent.
TabQueried(f) ==
    /\ f \in loads.calls /\ f.pc = "query"
    /\ loads' = [loads EXCEPT !.calls = (@ \ {f}) \cup {[f EXCEPT !.pc = "message"]}]
    /\ ev' = [NoEvent EXCEPT !.type = "getEmailsToday"]
    /\ UNCHANGED <<exceptLoads, summaryCache, storage, inFlightSummaries,
                   summaryQueue, isProcessingSummaryQueue, tasks, inv, enqueued>>

\* The response, an error or the 15 s timeout: the count or an error is
\* shown, and finally { this.isLoading = false }.
MessageSettles(f) ==
    /\ f \in loads.calls /\ f.pc = "message"
    /\ loads' = [loads EXCEPT !.isLoading = FALSE, !.calls = @ \ {f}]
    /\ ev' = [NoEvent EXCEPT !.type = "emailCount"]
    /\ UNCHANGED <<exceptLoads, summaryCache, storage, inFlightSummaries,
                   summaryQueue, isProcessingSummaryQueue, tasks, inv, enqueued>>

MaxSaves == 2

NextPopup ==
    \/ PopupOpens
    \/ \E input \in ApiKeyInputs :
           Cardinality(popup.saves) < MaxSaves /\ SaveApiKey(input)
    \/ \E f \in popup.saves, fetched \in FetchOutcomes : TestApiKeySettles(f, fetched)
    \/ \E f \in popup.saves, setOk \in BOOLEAN :
           Scheduled(loads) < MaxLoads /\ ApiKeyStored(f, setOk)
    \/ InitLoadsEmailCount
    \/ TimerLoadsEmailCount
    \/ \E f \in loads.calls, isGmail \in BOOLEAN : GmailTabChecked(f, isGmail)
    \/ \E f \in loads.calls : TabQueried(f)
    \/ \E f \in loads.calls : MessageSettles(f)
    \/ \E apiKey \in ApiKeyInputs, setOk \in BOOLEAN : HandleSaveApiKey(apiKey, setOk)

SpecPopup == Init /\ [][NextPopup]_vars

(***************************************************************************)
(* A second content-script instance (another Gmail tab) on the same        *)
(* chrome.storage.local slot: its setCachedSummary, statement by           *)
(* statement.  Its own Map is not part of the model.                       *)
(***************************************************************************)
PeerIds == {"mid:m3", "mid:m4"}

\* setCachedSummary(id, summary) up to `await chrome.storage.local.get(...)`.
PeerSetCachedSummary(id, summary) ==
    /\ peer.st = "idle"
    /\ peer' = [st |-> "storageGet", id |-> id, summary |-> summary, raw |-> EmptyMap]
    /\ ev' = NoEvent
    /\ UNCHANGED <<exceptPeer, summaryCache, storage, inFlightSummaries,
                   summaryQueue, isProcessingSummaryQueue, tasks, inv, enqueued>>

\* The read answers: raw = result[key] || {}, raw[id] = summary, and the
\* write is issued.
PeerStorageGetDone ==
    /\ peer.st = "storageGet"
    /\ peer' = [peer EXCEPT !.st = "storageSet",
                            !.raw = MapSet(storage, peer.id, peer.summary)]
    /\ ev' = NoEvent
    /\ UNCHANGED <<exceptPeer, summaryCache, storage, inFlightSummaries,
                   summaryQueue, isProcessingSummaryQueue, tasks, inv, enqueued>>

\* chrome.storage.local.set({ [key]: raw }) is carried out.
PeerStorageSetDone ==
    /\ peer.st = "storageSet"
    /\ storage' = peer.raw
    /\ peer' = NoPeer
    /\ ev' = NoEvent
    /\ UNCHANGED <<exceptPeer, summaryCache, inFlightSummaries,
                   summaryQueue, isProcessingSummaryQueue, tasks, inv, enqueued>>

(***************************************************************************)
(* SpecPeers: one instance with sequential callers and a storage that      *)
(* works, and the setCachedSummary calls of a second instance.             *)
(***************************************************************************)
NextPeers ==
    \/ \E email \in Emails, dom \in Doms, digestOk \in BOOLEAN :
           inv = EmptyBag /\ OpenEmail(email, dom, digestOk)
    \/ \E r \in Frames : KeyResolved(r)
    \/ \E t \in DOMAIN tasks, resp \in Answers : TaskBackendSettles(t, resp)
    \/ \E t \in DOMAIN tasks : StorageGetDone(t, TRUE)
    \/ \E t \in DOMAIN tasks : StorageSetDone(t, TRUE)
    \/ \E r \in Frames : AwaitTaskResumes(r)
    \/ \E r \in Frames, resp \in Answers : FallbackSettles(r, resp)
    \/ \E id \in PeerIds : PeerSetCachedSummary(id, "w1")
    \/ PeerStorageGetDone
    \/ PeerStorageSetDone

SpecPeers == Init /\ [][NextPeers]_vars

(***************************************************************************)
(* Multi-select: checkMultiSelectState, handleMultiSelect, the multi-email *)
(* sidebar and its hide / show / close buttons.  The functions work on     *)
(* c = [m, w, single]: multiSelect, watch and currentSidebar during one    *)
(* synchronous stretch of code.  generateMultiEmailSummaries is one await  *)
(* here: its result is the list of summaries of the emailsData it got.     *)
(***************************************************************************)
Rows == {"r1", "r2", "r3"}
MaxRuns == 3        \* handleMultiSelect invocations started in a behaviour

Here == [m |-> multiSelect, w |-> watch, single |-> currentSidebar]

\* removeMultiSelectSidebar
removeMultiSelectSidebar(c) ==
    [c EXCEPT !.m.multiSelectSidebar = 0,
              !.m.isMultiSidebarHidden = FALSE,
              !.m.shows = NoContent]

\* clearMultiSelect: the fields, the sidebar, and the check boxes of the page
\* (which the observer notices).
clearMultiSelect(c) ==
    LET d == removeMultiSelectSidebar(c)
    IN  [d EXCEPT !.w.isMultiSelectMode = FALSE,
                  !.m.isMultiSidebarHidden = FALSE,
                  !.m.selectedEmails = {},
                  !.m.lastMultiSelectData = {},
                  !.m.selected = {},
                  !.m.timer = (c.m.timer \/ c.m.selected # {})]

\* handleMultiSelect up to its first await (tryGetFullEmailContent).
handleMultiSelect(c, selectedRows) ==
    IF ~c.w.apiKey THEN c
    ELSE [c EXCEPT !.single = 0,
                   !.w.sidebarFor = Null,
                   !.m.started = @ + 1,
                   !.m.runs = @ \cup {[rows |-> selectedRows, pc |-> "rows",
                                       n |-> c.m.started + 1]}]

\* checkMultiSelectState
checkMultiSelectState(c) ==
    LET selectedRows == c.m.selected
    IN  IF c.w.emailView # ""
        THEN IF c.w.isMultiSelectMode THEN clearMultiSelect(c) ELSE c
        ELSE IF Cardinality(selectedRows) >= 2
        THEN IF ~c.w.isMultiSelectMode
             THEN handleMultiSelect([c EXCEPT !.w.isMultiSelectMode = TRUE], selectedRows)
             ELSE IF Cardinality(selectedRows) # Cardinality(c.m.selectedEmails)
             THEN IF ~c.m.isMultiSidebarHidden \/ c.m.lastMultiSelectData = {}
                  THEN handleMultiSelect(c, selectedRows)
                  ELSE [c EXCEPT !.m.selectedEmails = selectedRows]
             ELSE c
        ELSE IF c.w.isMultiSelectMode THEN clearMultiSelect(c) ELSE c

\* showMultiSidebar, with the re-check of the selection at its end
showMultiSidebar(c) ==
    IF c.m.multiSelectSidebar = 0 THEN c
    ELSE checkMultiSelectState([c EXCEPT !.m.isMultiSidebarHidden = FALSE])

\* hideMultiSidebar
hideMultiSidebar(c) ==
    IF c.m.multiSelectSidebar = 0 THEN c
    ELSE [c EXCEPT !.m.isMultiSidebarHidden = TRUE]

\* updateMultiSidebarLoading, called by run n
updateMultiSidebarLoading(c, n) ==
    IF c.m.multiSelectSidebar = 0 \/ c.m.lastMultiSelectData = {} THEN c
    ELSE [c EXCEPT !.m.shows = [kind |-> "loading", run |-> n,
                                of |-> c.m.lastMultiSelectData]]

\* createMultiEmailSidebar, called by run n
createMultiEmailSidebar(c, n, emailsData) ==
    [removeMultiSelectSidebar(c) EXCEPT
         !.m.multiSelectSidebar = n,
         !.m.isMultiSidebarHidden = FALSE,
         !.m.shows = [kind |-> "loading", run |-> n, of |-> emailsData]]

\* updateMultiSidebarContent(this.multiSelectSidebar, emailsData, summaries)
updateMultiSidebarContent(c, kind, n, emailsData) ==
    IF c.m.multiSelectSidebar = 0 THEN c
    ELSE [c EXCEPT !.m.shows = [kind |-> kind, run |-> n, of |-> emailsData]]

\* One synchronous stretch has taken Here to c.
Becomes(c) ==
    /\ multiSelect' = [c.m EXCEPT !.changedHidden =
                           /\ @
                           /\ c.m.isMultiSidebarHidden
                           /\ c.m.multiSelectSidebar # 0]
    /\ watch' = c.w
    /\ currentSidebar' = c.single
    /\ ev' = NoEvent
    /\ UNCHANGED <<exceptWatchSidebarMulti, summaryCache, storage,
                   inFlightSummaries, summaryQueue, isProcessingSummaryQueue,
                   tasks, inv, enqueued>>

\* The user ticks or unticks check boxes: the observer starts its timer.
SelectRows(rows) ==
    /\ rows # multiSelect.selected
    /\ Becomes([Here EXCEPT !.m.selected = rows, !.m.timer = TRUE,
                             !.m.changedHidden = TRUE])

\* The timer of the multi-select observer fires.
CheckMultiSelectState ==
    /\ multiSelect.timer
    /\ Becomes(checkMultiSelectState([Here EXCEPT !.m.timer = FALSE]))

\* The hide button of the sidebar, or the floating unhide button.
ToggleMultiSidebar ==
    /\ multiSelect.multiSelectSidebar # 0
    /\ Becomes(IF multiSelect.isMultiSidebarHidden
               THEN showMultiSidebar(Here) ELSE hideMultiSidebar(Here))

\* The close button, Clear Selection, or the Escape key.
ClearMultiSelect ==
    /\ watch.isMultiSelectMode \/ multiSelect.multiSelectSidebar # 0
    /\ Becomes(clearMultiSelect(Here))

\* handleMultiSelect has read its rows: from the end of the loop to the
\* call of generateMultiEmailSummaries.
RowsRead(f) ==
    LET emailsData == f.rows
        c1 == [Here EXCEPT !.m.selectedEmails = f.rows,
                           !.m.lastMultiSelectData = emailsData]
        c2 == IF c1.m.isMultiSidebarHidden /\ c1.m.multiSelectSidebar # 0
              THEN updateMultiSidebarLoading(showMultiSidebar(c1), f.n)
              ELSE createMultiEmailSidebar(c1, f.n, emailsData)
    IN  /\ f \in multiSelect.runs /\ f.pc = "rows"
        /\ IF Cardinality(emailsData) > 1
           THEN Becomes([c2 EXCEPT !.m.runs = (@ \ {f}) \cup {[f EXCEPT !.pc = "summaries"]}])
           ELSE Becomes([Here EXCEPT !.m.runs = @ \ {f}])

\* generateMultiEmailSummaries of run f has one more summary and updates
\* the sidebar with those it has.
SummaryRendered(f) ==
    /\ f \in multiSelect.runs /\ f.pc = "summaries"
    /\ multiSelect.shows # [kind |-> "partial", run |-> f.n, of |-> f.rows]
    /\ multiSelect.multiSelectSidebar # 0
    /\ Becomes(updateMultiSidebarContent(Here, "partial", f.n, f.rows))

\* generateMultiEmailSummaries of run f returns; handleMultiSelect writes the
\* summaries into the sidebar and ends.
SummariesDone(f) ==
    /\ f \in multiSelect.runs /\ f.pc = "summaries"
    /\ Becomes([updateMultiSidebarContent(Here, "summaries", f.n, f.rows)
                   EXCEPT !.m.runs = @ \ {f}])

(***************************************************************************)
(* SpecSelect: the user selects rows of the list, hides, shows and closes  *)
(* the multi-email sidebar; no mail is open.  No more than MaxRuns         *)
(* handleMultiSelect invocations are started.                              *)
(***************************************************************************)
NextSelect ==
    \/ \E rows \in SUBSET Rows : SelectRows(rows)
    \/ multiSelect.started < MaxRuns /\ CheckMultiSelectState
    \/ multiSelect.started < MaxRuns /\ ToggleMultiSidebar
    \/ ClearMultiSelect
    \/ \E f \in multiSelect.runs : multiSelect.started < MaxRuns /\ RowsRead(f)
    \/ \E f \in multiSelect.runs : SummaryRendered(f)
    \/ \E f \in multiSelect.runs : SummariesDone(f)

SpecSelect == Init /\ [][NextSelect]_vars

(***************************************************************************)
(* SpecAnyKey: the content script with or without an API key.  Mails are   *)
(* opened and closed, rows are selected in the list view, the sidebars are *)
(* closed, hidden and shown.  One createEmailSidebar call is suspended at  *)
(* a time and at most MaxMulti handleMultiSelect runs are started.         *)
(***************************************************************************)
ListSelections == {{}, {"r1", "r2"}, {"r1", "r2", "r3"}}

NextAnyKey ==
    \/ \E view \in {"", "m1"}, ready \in BOOLEAN :
           /\ ~Handoff
           /\ CountIn(inv, SidebarFrames(inv)) = 0
           /\ DomMutation(view, ready)
    \/ \E digestOk \in BOOLEAN : ~Handoff /\ CheckAndShowSidebar(digestOk)
    \/ ~Handoff /\ RemoveEmailSidebar
    \/ \E r \in Frames : ~Handoff /\ KeyResolved(r)
    \/ \E t \in DOMAIN tasks, resp \in Answers : ~Handoff /\ TaskBackendSettles(t, resp)
    \/ \E t \in DOMAIN tasks : ~Handoff /\ StorageGetDone(t, TRUE)
    \/ \E t \in DOMAIN tasks : ~Handoff /\ StorageSetDone(t, TRUE)
    \/ \E r \in Frames : ~Handoff /\ AwaitTaskResumes(r)
    \/ \E r \in Frames, resp \in Answers : ~Handoff /\ FallbackSettles(r, resp)
    \/ \E c \in Frames : SidebarResumes(c)
    \/ \E rows \in ListSelections :
           ~Handoff /\ watch.emailView = "" /\ SelectRows(rows)
    \/ ~Handoff /\ multiSelect.started < MaxMulti /\ CheckMultiSelectState
    \/ ~Handoff /\ multiSelect.started < MaxMulti /\ ToggleMultiSidebar
    \/ ~Handoff /\ ClearMultiSelect
    \/ \E f \in multiSelect.runs :
           ~Handoff /\ multiSelect.started < MaxMulti /\ RowsRead(f)
    \/ \E f \in multiSelect.runs : ~Handoff /\ SummaryRendered(f)
    \/ \E f \in multiSelect.runs : ~Handoff /\ SummariesDone(f)

SpecAnyKey == InitAnyKey /\ [][NextAnyKey]_vars

(***************************************************************************)
(* SpecRestart: SpecSeq with page reloads.                                 *)
(***************************************************************************)
NextRestart ==
    \/ NextSeq
    \/ \E readOk \in BOOLEAN : Restart(readOk)

SpecRestart == InitWide /\ [][NextRestart]_vars

(***************************************************************************)
(* SpecNoStorage: chrome.storage.local fails every read and every write,   *)
(* from startup on; up to MaxMulti summaries are awaited at a time.        *)
(***************************************************************************)
InitNoStorage == \E stored \in StoredAtStartup : Startup(stored, FALSE)

NextNoStorage ==
    \/ \E email \in Emails, dom \in Doms, digestOk \in BOOLEAN :
           BagCardinality(inv) < MaxMulti /\ OpenEmail(email, dom, digestOk)
    \/ \E r \in Frames : KeyResolved(r)
    \/ \E t \in DOMAIN tasks, resp \in Responses : TaskBackendSettles(t, resp)
    \/ \E t \in DOMAIN tasks : StorageGetDone(t, FALSE)
    \/ \E r \in Frames : AwaitTaskResumes(r)
    \/ \E r \in Frames : JoinResumes(r)
    \/ \E r \in Frames, resp \in Responses : FallbackSettles(r, resp)

SpecNoStorage == InitNoStorage /\ [][NextNoStorage]_vars

(***************************************************************************)
(* Properties.                                                             *)
(***************************************************************************)

\* Backend requests for a summary that have been issued and not yet answered.
TaskCalls(k) == {t \in DOMAIN tasks : tasks[t].st = "backend" /\ tasks[t].id = k}
DirectCalls(k) == CountIn(inv, {r \in Frames : r.pc = "fallback" /\ r.id = k})
Keys == {r.id : r \in Frames} \ {Null, Thrown}

\* C1 (stated as in the specification; the program violates it).
\* Single-flight: for the callers of one key that overlap in time the
\* backend is invoked once, so at no time are two backend requests for the
\* same key unanswered.
C1_SingleFlight ==
    \A k \in Keys : Cardinality(TaskCalls(k)) + DirectCalls(k) <= 1

\* C2 (stated as in the specification; the program violates it).
\* Idempotence: of calls made one after the other for a key, only the first
\* reaches the backend: once the key has a cached summary, no task asks the
\* backend for it.
C2_Idempotent ==
    \A t \in DOMAIN tasks :
        tasks[t].st \in {"queued", "backend"} => ~MapHas(summaryCache, tasks[t].id)

\* C3. Concurrency = 1: at most one task's run function is executing, and
\* isProcessingSummaryQueue says whether one is.
C3_ConcurrencyOne ==
    /\ Cardinality(Running(tasks)) <= 1
    /\ isProcessingSummaryQueue = (Running(tasks) # {})

\* C3: a task is running while callers have enqueued two more.
C3_Witness == Cardinality(Running(tasks)) = 1 /\ Len(summaryQueue) >= 2

\* C4. FIFO: the unsettled tasks, in the order in which they were enqueued,
\* are the running task followed by summaryQueue: a task enqueued while
\* another runs is behind every earlier one, the running task stays the
\* oldest unsettled one, and tasks leave the head to start.
C4_FIFO ==
    LET run == Running(tasks)
    IN  /\ enqueued = (IF run = {} THEN <<>> ELSE <<CHOOSE t \in run : TRUE>>)
                          \o summaryQueue
        /\ \A i \in 1..Len(summaryQueue) : tasks[summaryQueue[i]].st = "queued"
        /\ \A t \in DOMAIN tasks :
               tasks[t].st = "queued" => \E i \in 1..Len(summaryQueue) : summaryQueue[i] = t

\* C4: two tasks were enqueued, one after the other, while a third runs.
C4_Witness ==
    /\ Len(summaryQueue) = 2
    /\ Len(enqueued) = 3
    /\ tasks[enqueued[1]].st = "backend"

\* C5 (stated as in the specification; the program violates it).
\* Backend requests for summaries are serialized: at no time are two of
\* them unanswered, whether issued by a queue task or by a catch block.
C5_Serialized ==
    Cardinality({t \in DOMAIN tasks : tasks[t].st = "backend"})
        + CountIn(inv, {r \in Frames : r.pc = "fallback"}) <= 1

\* C6 (stated as in the specification; the program violates it).
\* Inter-task delay: the step in which a running task settles starts no
\* task; the next one starts in a later step, after the delay.
C6_DelayBeforeNext ==
    [][ (\E t \in Running(tasks) : t \notin DOMAIN tasks' \/ tasks'[t].st = "settled")
            => Running(tasks') = {} ]_vars

\* C7 (stated as in the specification; the program violates it).
\* No automatic retry: an invocation whose queue task asked the backend
\* causes that one backend call and no other, whatever the answer was.
C7_NoRetry == \A r \in Frames : r.own => Calls(r) = 1

\* An invocation whose try block is about to throw: the key computation
\* failed, or the promise it awaits is rejected.
Throwing(ts, r) ==
    \/ r.pc = "key" /\ r.id = Thrown
    \/ r.pc \in {"awaitTask", "join"} /\ ts[r.task].promise = "rejected"
InFallback(r) == r.pc = "fallback"
ThrowingCount(B, ts) == CountIn(B, {r \in BagToSet(B) : Throwing(ts, r)})
FallbackCount(B) == CountIn(B, {r \in BagToSet(B) : InFallback(r)})

\* C8. Degraded mode: an invocation whose try block throws goes to the
\* catch block, which calls the backend directly, once; the invocation
\* settles with the outcome of that call, and the step in which it does
\* changes neither the cache, the stored mapping, the in-flight map nor the
\* queue and its tasks.
C8_DegradedMode ==
    /\ [](/\ \A r \in Frames : r.direct = (IF InFallback(r) THEN 1 ELSE 0)
          /\ ev.type = "return" =>
                 IF ev.pc = "fallback" THEN ev.res = ev.backend
                                       ELSE ev.backend = Pending)
    /\ [][ /\ ThrowingCount(inv', tasks') < ThrowingCount(inv, tasks)
              => FallbackCount(inv') = FallbackCount(inv) + 1
           /\ FallbackCount(inv') < FallbackCount(inv)
              => /\ ev'.type = "return" /\ ev'.pc = "fallback"
                 /\ UNCHANGED <<summaryCache, storage, inFlightSummaries,
                                summaryQueue, isProcessingSummaryQueue, tasks,
                                enqueued>> ]_vars

\* C8: a direct call made from the catch block has just given the caller
\* its summary, and nothing of it is in the cache or in storage.
C8_Witness ==
    /\ ev.type = "return" /\ ev.pc = "fallback" /\ ev.res = Ok("v1")
    /\ summaryCache = EmptyMap /\ storage = EmptyMap

\* C9. In-flight release: every entry of inFlightSummaries belongs to the
\* invocation that enqueued the task and still awaits it, so the entry is
\* gone once that invocation has resumed from a fulfilled or a rejected
\* task, the map is empty when no invocation is pending, and no later
\* caller finds the entry of a task that failed.
C9_InFlightRelease ==
    /\ \A k \in DOMAIN inFlightSummaries :
           \E r \in Frames : /\ r.pc = "awaitTask" /\ r.own
                             /\ r.id = k /\ r.task = inFlightSummaries[k]
    /\ inv = EmptyBag => inFlightSummaries = EmptyMap

\* C9: the task of one caller failed (it is in its catch block), and a
\* later caller for the same key has a new task of its own.
C9_Witness ==
    \E r1, r2 \in Frames :
        /\ r1.pc = "fallback" /\ r1.own
        /\ r2.pc = "awaitTask" /\ r2.own /\ r2.id = r1.id
        /\ tasks[r2.task].promise = "pending"
        /\ inFlightSummaries[r2.id] = r2.task

\* C10. At most one task per key is queued or running, and it is the one
\* inFlightSummaries holds for the key.
C10_OneTaskPerKey ==
    /\ \A t1, t2 \in Outstanding(tasks) : tasks[t1].id = tasks[t2].id => t1 = t2
    /\ \A t \in Outstanding(tasks) :
           /\ MapHas(inFlightSummaries, tasks[t].id)
           /\ inFlightSummaries[tasks[t].id] = t

\* C10: one caller awaits the outstanding task of a key it found in flight
\* while another caller for that key is still computing its key.
C10_Witness ==
    \E r1, r2 \in Frames :
        /\ r1.pc = "join" /\ r1.task \in Outstanding(tasks)
        /\ r2.pc = "key" /\ r2.id = r1.id

\* C11. No starvation: with the run of every task settling, every task
\* that is enqueued is started and its promise settled; and the step in
\* which a task fails hands the runner to the head of the remaining queue,
\* which is otherwise left as it was, or leaves the runner idle when the
\* queue is empty.
C11_NoStarvation ==
    /\ \A t \in 1..MaxActive :
           (t \in DOMAIN tasks /\ tasks[t].st # "settled")
               ~> (t \notin DOMAIN tasks \/ tasks[t].st = "settled")
    /\ [][ \A t \in Running(tasks) :
               (t \in DOMAIN tasks' /\ tasks'[t].promise = "rejected")
                   => IF summaryQueue = <<>>
                      THEN ~isProcessingSummaryQueue' /\ summaryQueue' = <<>>
                      ELSE /\ isProcessingSummaryQueue'
                           /\ summaryQueue' = Tail(summaryQueue)
                           /\ tasks'[Head(summaryQueue)].st = "backend" ]_vars

\* C11: a task has failed (its caller has not resumed yet), the task that
\* was queued behind it is running and a third is still queued.
C11_Witness ==
    \E t1, t2 \in DOMAIN tasks :
        /\ tasks[t1].promise = "rejected"
        /\ tasks[t2].st = "backend"
        /\ Len(summaryQueue) = 1

\* C12 (stated as in the specification; the program violates it).
\* Cache entries are immutable: no step of the running process removes an
\* entry of summaryCache or gives its key another value.
C12_CacheImmutable ==
    [][ \A k \in DOMAIN summaryCache :
            MapHas(summaryCache', k) /\ summaryCache'[k] = summaryCache[k] ]_vars

\* The invocations about to look up a key that summaryCache holds.
CacheHits == {r \in Frames : r.pc = "key" /\ MapHas(summaryCache, r.id)}

\* C13 (stated as in the specification; the program violates it).
\* Cache hit: when an invocation looks up a key that summaryCache holds, it
\* returns the cached string in that step, which changes neither the cache,
\* storage, the in-flight map nor the queue and its tasks.
C13_CacheHit ==
    [][ CountIn(inv', CacheHits) < CountIn(inv, CacheHits)
            => /\ ev'.type = "return"
               /\ \E r \in CacheHits : ev'.res = Ok(summaryCache[r.id])
               /\ UNCHANGED <<summaryCache, storage, inFlightSummaries,
                              summaryQueue, isProcessingSummaryQueue, tasks,
                              enqueued>> ]_vars

\* C14: cache round trip.  When a fresh instance has loaded the cache from
\* storage, getCachedSummary returns, for every key that setCachedSummary
\* persisted, exactly the summary that was persisted with it.
C14_RoundTrip ==
    ev.type = "loaded" => \A k \in DOMAIN storage : getCachedSummary(k) = storage[k]

\* C15: storage failure does not fail summarize.  When every read and every
\* write of chrome.storage.local fails, the cache loaded at startup is empty,
\* storage is never changed, and a task whose backend call produced a text is
\* fulfilled with exactly that text once the persist has failed: no task is
\* rejected because of storage, and the caller awaiting the task gets the text.
C15_StorageFailureTolerated ==
    /\ summaryCache = EmptyMap
    /\ [](/\ \A t \in DOMAIN tasks :
                 tasks[t].promise = "rejected" => tasks[t].val # "storage failed"
          /\ (ev.type = "return" /\ ev.pc = "awaitTask") => ev.res.ok)
    /\ [][ /\ storage' = storage
           /\ \A t \in DOMAIN tasks :
                  tasks[t].st = "storageGet"
                      => /\ t \in DOMAIN tasks'
                         /\ \/ tasks'[t] = tasks[t]
                            \/ /\ tasks'[t].promise = "fulfilled"
                               /\ tasks'[t].val = tasks[t].val ]_vars

\* An uncached mail was summarized and the caller got the backend's text
\* although nothing could be read from or written to storage.
C15_Witness ==
    /\ ev.type = "return" /\ ev.pc = "awaitTask" /\ ev.res = Ok("v1")
    /\ storage = EmptyMap
    /\ \E k \in DOMAIN summaryCache : summaryCache[k] = "v1"

\* The keys whose summary is in the in-memory cache but not in storage.
NotPersisted ==
    {k \in DOMAIN summaryCache : ~MapHas(storage, k) \/ storage[k] # summaryCache[k]}

\* C16: in-memory caching survives a failed persist.  A summary that is in
\* the in-memory cache but could not be written to storage stays in the cache,
\* and no later call for its key starts a new task (hence no backend call):
\* the key is never registered in inFlightSummaries again.
C16_MemoryCacheSurvives ==
    [][ \A k \in NotPersisted :
            /\ MapHas(summaryCache', k) /\ summaryCache'[k] = summaryCache[k]
            /\ MapHas(inFlightSummaries', k) => MapHas(inFlightSummaries, k) ]_vars

C18_KeyDeterminism ==
    /\ [](\A c1, c2 \in keyLog :
              ( /\ c1.explicitId = c2.explicitId /\ c1.subject = c2.subject
                /\ c1.body = c2.body /\ c1.time = c2.time
                /\ c1.key # Thrown /\ c2.key # Thrown )
                  => c1.key = c2.key)
    /\ [][UNCHANGED <<summaryCache, storage, inFlightSummaries, summaryQueue,
                      isProcessingSummaryQueue, tasks, inv>>]_vars

\* C19: keys are not shared between distinct items.  Two calls without an
\* explicit id whose subjects, times or first PrefixLen characters of body
\* differ never return the same key.
C19_KeysNotShared ==
    \A c1, c2 \in keyLog :
        ( /\ c1.explicitId = "" /\ c2.explicitId = ""
          /\ c1.key # Thrown /\ c2.key # Thrown
          /\ \/ c1.subject # c2.subject
             \/ c1.time # c2.time
             \/ Substring(c1.body, PrefixLen) # Substring(c2.body, PrefixLen) )
            => c1.key # c2.key

\* C20: generateCustomReply bypasses cache and queue.  Requesting a custom
\* reply adds one pending backend call of its own, also when an identical
\* request is pending and whatever the queue is doing; neither the request
\* nor its completion touches the summary cache, storage, the in-flight map,
\* the queue or its tasks, and the caller gets the outcome of its own call.
C20_CustomReplyBypasses ==
    [][ /\ ev'.type = "replyCall"
            => /\ CountIn(inv', ReplyFrames) = CountIn(inv, ReplyFrames) + 1
               /\ \A r \in ReplyFrames : BagIn(r, inv') => r.direct = 1
               /\ UNCHANGED <<summaryCache, storage, inFlightSummaries, summaryQueue,
                              isProcessingSummaryQueue, tasks, enqueued>>
        /\ ev'.type = "replied"
            => /\ CountIn(inv', ReplyFrames) = CountIn(inv, ReplyFrames) - 1
               /\ ev'.res = ev'.backend
               /\ UNCHANGED <<summaryCache, storage, inFlightSummaries, summaryQueue,
                              isProcessingSummaryQueue, tasks, enqueued>> ]_vars

\* Two identical custom-reply requests are pending, each with its own
\* backend call, while a queue task is running.
C20_Witness ==
    /\ \E r \in ReplyFrames : BagIn(r, inv) /\ inv[r] = 2
    /\ Running(tasks) # {}
    /\ ev.type = "replyCall"

Awaiters == {r \in Frames : r.pc \in {"awaitTask", "join"}}

\* C22: completion is delivered to all awaiters.  An invocation that resumes
\* from awaiting a task settles in that step with the task's outcome: it
\* returns the task's result when the task was fulfilled and throws the
\* task's error when it was rejected.
C22_DeliveredToAwaiters ==
    [][ \A r \in Awaiters :
            CountIn(inv', {r}) < CountIn(inv, {r})
                => /\ ev'.type = "return"
                   /\ ev'.res = [ok |-> tasks[r.task].promise = "fulfilled",
                                 val |-> tasks[r.task].val] ]_vars

\* The state of key k given the cache c and the in-flight map f.
KeyState(c, f, k) ==
    IF MapHas(f, k) THEN "InFlight"
    ELSE IF MapHas(c, k) THEN "Cached" ELSE "Unseen"

\* C23: per-key state machine.  A key changes state only from Unseen to
\* InFlight, from InFlight to Cached when its task was fulfilled and from
\* InFlight to Unseen when its task was rejected; Cached is terminal, and no
\* task is enqueued for a cached key.
C23_KeyStateMachine ==
    [][ \A k \in DOMAIN summaryCache \cup DOMAIN inFlightSummaries
                 \cup DOMAIN summaryCache' \cup DOMAIN inFlightSummaries' :
            LET a == KeyState(summaryCache, inFlightSummaries, k)
                b == KeyState(summaryCache', inFlightSummaries', k)
            IN  /\ a # b =>
                    \/ a = "Unseen" /\ b = "InFlight"
                    \/ /\ a = "InFlight" /\ b = "Cached"
                       /\ tasks[inFlightSummaries[k]].promise = "fulfilled"
                    \/ /\ a = "InFlight" /\ b = "Unseen"
                       /\ tasks[inFlightSummaries[k]].promise = "rejected"
                /\ a = "Cached" =>
                    \A t \in DOMAIN tasks' :
                        tasks'[t].id = k => t \in DOMAIN tasks /\ tasks[t].id = k ]_vars

StoredHits ==
    {r \in Frames : r.pc = "key" /\ ~MapHas(summaryCache, r.id) /\ MapHas(storage, r.id)}

\* C25: two-level cache lookup.  An invocation whose key is missing from the
\* in-memory cache and present in the persisted mapping returns the
\* persisted summary; it enqueues no task and causes no backend call.
C25_TwoLevelLookup ==
    [][ CountIn(inv', StoredHits) < CountIn(inv, StoredHits)
            => /\ ev'.type = "return"
               /\ \E r \in StoredHits : ev'.res = Ok(storage[r.id])
               /\ UNCHANGED <<inFlightSummaries, summaryQueue,
                              isProcessingSummaryQueue, tasks, enqueued>> ]_vars

\* C26: individual summaries for each selected email.  The summaries pushed
\* so far are those of the first mails of emailsData, one each and in input
\* order; the entry pushed after a failed generation carries the error text;
\* and the function returns only with an entry for every mail, whatever
\* failed on the way.
C26_OneEntryPerEmail ==
    /\ [](/\ Len(multiRun.summaries) <= multiRun.i
          /\ multiRun.i <= Len(multiRun.emailsData)
          /\ \A n \in 1..Len(multiRun.summaries) :
                 multiRun.summaries[n].id = multiRun.emailsData[n].id
          /\ multiRun.st \in {"delay", "returned", "idle"}
                 => Len(multiRun.summaries) = multiRun.i
          /\ multiRun.st = "returned"
                 => Len(multiRun.summaries) = Len(multiRun.emailsData))
    /\ [][ ev'.type = "pushed"
             => /\ Len(multiRun'.summaries) = Len(multiRun.summaries) + 1
                /\ multiRun'.summaries[multiRun.i].summary =
                       IF ev.res.ok THEN ev.res.val
                       ELSE "Error generating summary: " \o ev.res.val ]_vars

\* The function has returned three entries: the generation for the first
\* mail failed and the later ones were summarized all the same.
C26_Witness ==
    /\ multiRun.st = "returned"
    /\ Len(multiRun.summaries) = 3
    /\ multiRun.summaries[1].summary = "Error generating summary: API error"
    /\ multiRun.summaries[2].summary = "v1"
    /\ multiRun.summaries[2].id # multiRun.summaries[1].id

\* C27: immediate start, no lost wake-up.  A task enqueued while the runner
\* is idle is the running task at the end of that step, one enqueued while
\* the runner is busy waits at the tail; and whenever a task waits in
\* summaryQueue the runner is busy with a task whose run function has not
\* settled.
C27_ImmediateStart ==
    /\ [](/\ summaryQueue # <<>> => isProcessingSummaryQueue
          /\ isProcessingSummaryQueue <=> Running(tasks) # {})
    /\ [][ \A t \in DOMAIN tasks' \ DOMAIN tasks :
               IF isProcessingSummaryQueue
               THEN /\ tasks'[t].st = "queued"
                    /\ summaryQueue' = Append(summaryQueue, t)
               ELSE /\ tasks'[t].st = "backend"
                    /\ isProcessingSummaryQueue'
                    /\ summaryQueue' = <<>> ]_vars

\* A task was enqueued on the idle queue and runs; nothing waits.
C27_Witness ==
    /\ Cardinality(DOMAIN tasks) = 1
    /\ \E t \in DOMAIN tasks : tasks[t].st = "backend"
    /\ summaryQueue = <<>> /\ isProcessingSummaryQueue
    /\ \E r \in Frames : r.pc = "awaitTask" /\ r.own

\* Mail m is open with its content and subject available, an API key is
\* configured and multi-select mode is off.
ReadyOpen(m) ==
    /\ watch.emailView = m /\ watch.ready
    /\ watch.apiKey /\ ~watch.isMultiSelectMode

\* C28: the sidebar appears automatically.  If from some time on mail m
\* stays open with content and subject available, an API key configured and
\* multi-select mode off, a sidebar for m is created in the end.
C28_SidebarAppears ==
    \A m \in MessageIds \ {""} :
        <>[]ReadyOpen(m) => <>(currentSidebar # 0 /\ watch.sidebarFor = m)

\* C29: validated API key.  The value stored under geminiApiKey changes only
\* to a key whose connection test has succeeded, and a saveApiKey with an
\* empty key or a test that fails or throws leaves the stored key and the
\* popup's apiKey as they were.
C29_ValidatedApiKey ==
    [][/\ popup'.geminiApiKey # popup.geminiApiKey
            => popup'.geminiApiKey \in popup.tested
       /\ (\/ ev'.type = "saveApiKey" /\ ev'.pc = "empty"
           \/ ev'.type = "testApiKey" /\ ev'.pc = "invalid")
            => /\ popup'.geminiApiKey = popup.geminiApiKey
               /\ popup'.apiKey = popup.apiKey]_vars

\* The generation of task t has succeeded: runFn is in setCachedSummary, or
\* the task was resolved.
Succeeded(t) ==
    \/ t.st \in {"storageGet", "storageSet"}
    \/ t.st = "settled" /\ t.promise = "fulfilled"

\* C30: success ordering.  Once the generation for key k has succeeded, k
\* is at every later moment in the in-memory cache or in the in-flight map:
\* the cache entry is written before the registration is removed, and no
\* entry ever leaves the cache.
C30_SuccessOrdering ==
    [][/\ \A t \in DOMAIN tasks :
              Succeeded(tasks[t])
                  => \/ MapHas(summaryCache', tasks[t].id)
                     \/ MapHas(inFlightSummaries', tasks[t].id)
       /\ DOMAIN summaryCache \subseteq DOMAIN summaryCache']_vars

\* An invocation has returned the summary of its own task, the registration
\* of the key is gone and the cache holds the summary.
C30_Witness ==
    /\ ev.type = "return" /\ ev.pc = "awaitTask" /\ ev.res.ok
    /\ \E k \in DOMAIN summaryCache :
           /\ ~MapHas(inFlightSummaries, k)
           /\ summaryCache[k] = ev.res.val

\* C31: no lost update between instances.  Two instances persist different
\* keys through the same storage slot: whatever the interleaving of their
\* reads and writes, a write leaves every key persisted before it in the
\* mapping, so that after both writes the mapping contains both keys.
C31_NoLostUpdate ==
    [][\A k \in DOMAIN storage : MapHas(storage', k)]_vars

\* No task is queued or running.
QueueIdle ==
    /\ summaryQueue = <<>>
    /\ ~isProcessingSummaryQueue
    /\ Running(tasks) = {}

\* C32: within one instance whose storage works and that is the only
\* writer, whenever no task is queued or running the persisted mapping
\* holds every key of the in-memory cache with the same value.
C32_PersistedWhenIdle ==
    QueueIdle =>
        \A k \in DOMAIN summaryCache :
            MapHas(storage, k) /\ storage[k] = summaryCache[k]

\* The queue is idle after the summaries of two mails were stored.
C32_Witness ==
    /\ QueueIdle
    /\ Cardinality(DOMAIN summaryCache) >= 2
    /\ DOMAIN summaryCache = DOMAIN storage

\* C33: every string that callGeminiAPI returns on success is non-empty,
\* also for a text of white space only, so every summary that
\* setCachedSummary stored is reported as present by getCachedSummary.
C33_StoredIsPresent ==
    /\ \A t \in DOMAIN tasks : Succeeded(tasks[t]) => tasks[t].val # ""
    /\ \A k \in DOMAIN summaryCache : getCachedSummary(k) # Null

\* C34: refresh after a hidden change.  When the selection has changed
\* while the multi-email sidebar was hidden and two or more rows are
\* selected, showing the sidebar again starts a handleMultiSelect run for
\* the rows now selected (which regenerates the summaries and writes them
\* into the sidebar).
C34_RefreshAfterHiddenChange ==
    [][(/\ multiSelect.changedHidden
        /\ multiSelect'.multiSelectSidebar # 0
        /\ ~multiSelect'.isMultiSidebarHidden
        /\ Cardinality(multiSelect'.selected) >= 2
        /\ multiSelect'.selected # multiSelect.lastMultiSelectData)
            => \E f \in multiSelect'.runs : f.rows = multiSelect'.selected]_vars

\* C35: the multi-email sidebar exists only while multi-select mode is
\* active.
C35_SidebarOnlyInMode ==
    multiSelect.multiSelectSidebar # 0 => watch.isMultiSelectMode

\* C36: no stale rendering across selections.  What the multi-email sidebar
\* shows was never written by a handleMultiSelect run that started before
\* the run that created the sidebar.
C36_NoStaleRendering ==
    multiSelect.multiSelectSidebar # 0 => multiSelect.shows.run >= multiSelect.multiSelectSidebar

\* C37: the single-email sidebar matches the open mail.  Whenever a
\* single-email sidebar is displayed and currentEmailId is e, the sidebar
\* was created for e (so after the open mail changes from A directly to B
\* the sidebar of A is not kept).
C37_SidebarMatchesOpenEmail ==
    (currentSidebar # 0 /\ watch.currentEmailId # Null)
        => watch.sidebarFor = watch.currentEmailId

\* C38: at most one email-count request of the popup is outstanding: a
\* loadEmailCount call that begins while another one is in progress sends
\* no getEmailsToday message.
C38_OneEmailCountRequest ==
    Cardinality({f \in loads.calls : f.pc = "message"}) <= 1

\* C39: no backend call without a key.  While the content script has no API
\* key, whatever mails are opened, rows selected and sidebars closed or
\* shown: no summary is asked for (no invocation of the wrapper, no
\* handleMultiSelect run, so no callGeminiAPI), nothing is enqueued or
\* registered in flight and nothing is cached or stored.
C39_NoCallWithoutKey ==
    ~watch.apiKey =>
        /\ inv = EmptyBag
        /\ multiSelect.runs = {} /\ multiSelect.started = 0
        /\ tasks = EmptyMap /\ summaryQueue = <<>> /\ enqueued = <<>>
        /\ inFlightSummaries = EmptyMap
        /\ summaryCache = EmptyMap /\ storage = EmptyMap
        /\ currentSidebar = 0 /\ multiSelect.multiSelectSidebar = 0

\* Without a key, rows were selected and multi-select mode was entered, and
\* then a mail was opened and detected with its content available.
C39_Witness ==
    /\ ~watch.apiKey
    /\ watch.emailView = "m1" /\ watch.ready /\ watch.currentEmailId = "m1"
    /\ watch.isMultiSelectMode /\ Cardinality(multiSelect.selected) >= 2
====
